---- MODULE Spec2Model ----
(***************************************************************************)
(* The social-account search of the person page (routes/people/[id]):     *)
(* queueing a Sherlock job, polling it, resuming a previous job and       *)
(* reconciling its result map with the person's known accounts.           *)
(*                                                                         *)
(* Strings that the code inspects character by character (platform labels *)
(* and keys) are sequences of one-character strings; strings that the     *)
(* code only copies or tests for emptiness (urls, handles, messages) are  *)
(* TLA+ strings, "" being the falsy one.                                   *)
(***************************************************************************)
EXTENDS Integers, Sequences, FiniteSets, TLC

\* ------------------------------------------------------------------ bounds
MaxLabelLen == 2   \* longest platform label drawn as an input
MaxFindings == 2   \* most entries of a result map drawn as an input
MaxSubmits  == 1   \* most searches queued in one behaviour
MaxNormLen  == 4   \* longest label drawn as an input of slugify alone
MaxInputs   == 3   \* most input events on the address field in one behaviour

\* --------------------------------------------------------------- constants
maxAttempts == 60  \* pollSearchResults: const maxAttempts = 60

\* ------------------------------------------------------- characters, slugify
LowerLetters == <<"a", "b", "c", "d", "e", "f", "g", "h", "i", "j", "k", "l", "m",
                  "n", "o", "p", "q", "r", "s", "t", "u", "v", "w", "x", "y", "z">>
UpperLetters == <<"A", "B", "C", "D", "E", "F", "G", "H", "I", "J", "K", "L", "M",
                  "N", "O", "P", "Q", "R", "S", "T", "U", "V", "W", "X", "Y", "Z">>
Lower  == {LowerLetters[i] : i \in 1..26}
Upper  == {UpperLetters[i] : i \in 1..26}
Digits == {"0", "1", "2", "3", "4", "5", "6", "7", "8", "9"}
Space  == {" ", "\t"}
Chars == {"a", "A", " ", "!"}   \* the alphabet labels are drawn from

RECURSIVE SeqsUpTo(_, _)
SeqsUpTo(S, n) ==
    IF n = 0 THEN {<<>>}
    ELSE LET shorter == SeqsUpTo(S, n - 1)
         IN  shorter \cup {Append(s, c) : s \in {t \in shorter : Len(t) = n - 1}, c \in S}

\* String.prototype.trim: drop the whitespace at both ends
RECURSIVE TrimLeft(_)
TrimLeft(s) == IF s # <<>> /\ Head(s) \in Space THEN TrimLeft(Tail(s)) ELSE s

RECURSIVE TrimRight(_)
TrimRight(s) ==
    IF s # <<>> /\ s[Len(s)] \in Space THEN TrimRight(SubSeq(s, 1, Len(s) - 1)) ELSE s

Trim(s) == TrimRight(TrimLeft(s))

\* String.prototype.toLowerCase
LowerChar(c) ==
    IF c \in Upper THEN LowerLetters[CHOOSE i \in 1..26 : UpperLetters[i] = c] ELSE c

ToLowerCase(s) == [i \in 1..Len(s) |-> LowerChar(s[i])]

\* .replace(/\s/g, '_'): every whitespace character becomes an underscore
ReplaceEachSpace(s) == [i \in 1..Len(s) |-> IF s[i] \in Space THEN "_" ELSE s[i]]

\* .replace(/\s+/g, '_'): every maximal run of whitespace becomes one underscore
RECURSIVE ReplaceSpaceRuns(_)
ReplaceSpaceRuns(s) ==
    IF s = <<>> THEN <<>>
    ELSE IF Head(s) \in Space
         THEN <<"_">> \o ReplaceSpaceRuns(TrimLeft(s))
         ELSE <<Head(s)>> \o ReplaceSpaceRuns(Tail(s))

\* .replace(/[^a-z0-9_-]/g, ''): delete every character outside the key alphabet
KeyChars == Lower \cup Digits \cup {"_", "-"}

\* the same replace without the g flag: only the first such character goes
StripFirstNonKey(s) ==
    LET bad == {i \in 1..Len(s) : s[i] \notin KeyChars}
    IN  IF bad = {} THEN s
        ELSE LET first == CHOOSE i \in bad : \A j \in bad : i <= j
             IN  SubSeq(s, 1, first - 1) \o SubSeq(s, first + 1, Len(s))

RECURSIVE StripNonKey(_)
StripNonKey(s) ==
    IF s = <<>> THEN <<>>
    ELSE IF Head(s) \in KeyChars
         THEN <<Head(s)>> \o StripNonKey(Tail(s))
         ELSE StripNonKey(Tail(s))

\* the slugify of processSearchResults
slugify(s) == StripNonKey(ReplaceSpaceRuns(ToLowerCase(Trim(s))))

\* the copies of slugify that the other handlers declare for themselves
slugifyConfirmSocial(s)  == StripNonKey(ReplaceSpaceRuns(ToLowerCase(Trim(s))))
slugifyRejectSocial(s)   == StripNonKey(ReplaceSpaceRuns(ToLowerCase(Trim(s))))
slugifyAddSocial(s)      == StripNonKey(ReplaceSpaceRuns(ToLowerCase(Trim(s))))
slugifySaveHandleEdit(s) == StripNonKey(ReplaceSpaceRuns(ToLowerCase(Trim(s))))
slugifyNewPerson(s)      == StripNonKey(ReplaceSpaceRuns(ToLowerCase(Trim(s))))

\* ------------------------------------------------------------ plain values
Null  == "<null>"   \* null / undefined of a string-valued variable
NoJob == 0          \* let searchJobId: string | null = null

\* A finding is one value of a result map.  obj is FALSE for null and for
\* non-objects; "" stands for an absent (falsy) status, url_user or username.
\* The findings drawn as inputs: every Claimed one, one with another status,
\* one object without any of the fields, and one that is no object.
Urls      == {"", "u"}
Usernames == {"", "h"}
Findings ==
    [obj : {TRUE}, status : {"Claimed"}, url_user : Urls, username : Usernames]
    \cup {[obj |-> TRUE, status |-> "Available", url_user |-> "u", username |-> "h"],
          [obj |-> TRUE, status |-> "", url_user |-> "", username |-> ""],
          [obj |-> FALSE, status |-> "", url_user |-> "", username |-> ""]}

\* Object.entries(results): the entries of a result map in iteration order,
\* no label twice.  has = FALSE is a null / undefined results value.
Labels == SeqsUpTo(Chars, MaxLabelLen)

DistinctSites(entries) ==
    \A i, j \in 1..Len(entries) : i # j => entries[i].site # entries[j].site

NoResults == [has |-> FALSE, entries |-> <<>>]

ResultMaps(labels, findings) ==
    {[has |-> TRUE, entries |-> e] :
        e \in {x \in SeqsUpTo([site : labels, res : findings], MaxFindings) :
                  DistinctSites(x)}}

\* person.socials: the entries of the accounts object in insertion order.
\* An entry is a bare handle string (structured = FALSE) or an object with
\* handle, status and root.
Keys(socials) == {socials[i].key : i \in 1..Len(socials)}

\* ------------------------------------------------- processSearchResults
\* the known keys taken as they are stored, without normalizing them
existingSocialsRaw(socials) == Keys(socials)

\* const existingSocials = new Set(); ... existingSocials.add(slugify(key))
existingSocials(socials) == {slugify(k) : k \in Keys(socials)}

\* a test that forgets the url
IsClaimedAnyUrl(res) == res.obj /\ res.status = "Claimed"

\* a test that forgets the status
HasUrlAnyStatus(res) == res.obj /\ res.url_user # ""

\* res.status === 'Claimed' && res.url_user, for an object finding
IsClaimedWithUrl(res) == res.obj /\ res.status = "Claimed" /\ res.url_user # ""

\* handle: res.username || searchUsername.  searchUsername is a local of
\* searchSocialAccounts and is not in scope in processSearchResults, so the
\* right operand raises a ReferenceError whenever it is evaluated.
HandleOf(res) ==
    IF res.username # ""
    THEN [threw |-> FALSE, handle |-> res.username]
    ELSE [threw |-> TRUE, handle |-> ""]

\* a loop that puts each new candidate at the front of the list (unshift)
RECURSIVE ScanFindingsUnshift(_, _, _)
ScanFindingsUnshift(entries, existing, foundAccounts) ==
    IF entries = <<>> THEN [threw |-> FALSE, found |-> foundAccounts]
    ELSE LET siteName     == Head(entries).site
             res          == Head(entries).res
             platformSlug == slugify(siteName)
         IN  IF IsClaimedWithUrl(res) /\ platformSlug \notin existing
             THEN IF HandleOf(res).threw
                  THEN [threw |-> TRUE, found |-> foundAccounts]
                  ELSE ScanFindingsUnshift(Tail(entries), existing,
                           <<[platform    |-> platformSlug,
                              url         |-> res.url_user,
                              handle      |-> HandleOf(res).handle,
                              displayName |-> siteName]>> \o foundAccounts)
             ELSE ScanFindingsUnshift(Tail(entries), existing, foundAccounts)

\* the loop over Object.entries(results) that fills foundAccounts
RECURSIVE ScanFindings(_, _, _)
ScanFindings(entries, existing, foundAccounts) ==
    IF entries = <<>> THEN [threw |-> FALSE, found |-> foundAccounts]
    ELSE LET siteName     == Head(entries).site
             res          == Head(entries).res
             platformSlug == slugify(siteName)
         IN  IF IsClaimedWithUrl(res) /\ platformSlug \notin existing
             THEN IF HandleOf(res).threw
                  THEN [threw |-> TRUE, found |-> foundAccounts]
                  ELSE ScanFindings(Tail(entries), existing,
                           Append(foundAccounts,
                                  [platform    |-> platformSlug,
                                   url         |-> res.url_user,
                                   handle      |-> HandleOf(res).handle,
                                   displayName |-> siteName]))
             ELSE ScanFindings(Tail(entries), existing, foundAccounts)

\* a count that leaves out the Claimed findings without a url
TotalClaimedWithUrl(entries) ==
    Cardinality({i \in 1..Len(entries) :
                    /\ entries[i].res.obj
                    /\ entries[i].res.status = "Claimed"
                    /\ entries[i].res.url_user # ""})

\* Object.values(results).filter(r => r && typeof r === 'object' && r.status === 'Claimed').length
TotalClaimed(entries) ==
    Cardinality({i \in 1..Len(entries) :
                    entries[i].res.obj /\ entries[i].res.status = "Claimed"})

NoNewMsg(n) == "No new social accounts found (" \o ToString(n) \o " platforms already added)"
NoneMsg     == "No social accounts found"
FoundMsg(n) == "Found " \o ToString(n) \o " new social accounts"

\* a version with one message for every empty candidate list
processSearchResultsOneMessage(results, pers, cur) ==
    IF ~results.has \/ ~pers.loaded
    THEN [threw |-> FALSE, searchResults |-> cur.searchResults,
          searchError |-> cur.searchError, searchJobStatus |-> cur.searchJobStatus]
    ELSE LET scan == ScanFindings(results.entries, existingSocials(pers.socials), <<>>)
         IN  IF scan.threw
             THEN [threw |-> TRUE, searchResults |-> cur.searchResults,
                   searchError |-> cur.searchError,
                   searchJobStatus |-> cur.searchJobStatus]
             ELSE [threw |-> FALSE,
                   searchResults |-> scan.found,
                   searchError |->
                       IF Len(scan.found) = 0 THEN NoneMsg ELSE cur.searchError,
                   searchJobStatus |->
                       IF Len(scan.found) = 0 THEN cur.searchJobStatus
                       ELSE FoundMsg(Len(scan.found))]

\* a version that adds the candidates to the list instead of replacing it
processSearchResultsAppending(results, pers, cur) ==
    IF ~results.has \/ ~pers.loaded
    THEN [threw |-> FALSE, searchResults |-> cur.searchResults,
          searchError |-> cur.searchError, searchJobStatus |-> cur.searchJobStatus]
    ELSE LET scan == ScanFindings(results.entries, existingSocials(pers.socials), <<>>)
             skippedCount == TotalClaimed(results.entries) - Len(scan.found)
         IN  IF scan.threw
             THEN [threw |-> TRUE, searchResults |-> cur.searchResults,
                   searchError |-> cur.searchError,
                   searchJobStatus |-> cur.searchJobStatus]
             ELSE [threw |-> FALSE,
                   searchResults |-> cur.searchResults \o scan.found,
                   searchError |->
                       IF Len(scan.found) = 0
                       THEN IF skippedCount > 0 THEN NoNewMsg(skippedCount) ELSE NoneMsg
                       ELSE cur.searchError,
                   searchJobStatus |->
                       IF Len(scan.found) = 0 THEN cur.searchJobStatus
                       ELSE FoundMsg(Len(scan.found))]

\* processSearchResults(results) run against `pers`, with `cur` the current
\* [searchResults, searchError, searchJobStatus]; the value is what these
\* three are afterwards, and whether the call threw.
processSearchResults(results, pers, cur) ==
    IF ~results.has \/ ~pers.loaded
    THEN [threw |-> FALSE, searchResults |-> cur.searchResults,
          searchError |-> cur.searchError, searchJobStatus |-> cur.searchJobStatus]
    ELSE LET scan == ScanFindings(results.entries, existingSocials(pers.socials), <<>>)
             skippedCount == TotalClaimed(results.entries) - Len(scan.found)
         IN  IF scan.threw
             THEN [threw |-> TRUE, searchResults |-> cur.searchResults,
                   searchError |-> cur.searchError,
                   searchJobStatus |-> cur.searchJobStatus]
             ELSE [threw |-> FALSE,
                   searchResults |-> scan.found,
                   searchError |->
                       IF Len(scan.found) = 0
                       THEN IF skippedCount > 0 THEN NoNewMsg(skippedCount) ELSE NoneMsg
                       ELSE cur.searchError,
                   searchJobStatus |->
                       IF Len(scan.found) = 0 THEN cur.searchJobStatus
                       ELSE FoundMsg(Len(scan.found))]

\* the message of the ReferenceError a throwing processSearchResults raises
RefErrorMsg == "searchUsername is not defined"

\* ------------------------------------------------------------------- state
VARIABLES
    jobs,               \* the backend's job store, a sequence; a job's id is its index
    db,                 \* the backend's record of the person: [socials, first_name]
    person,             \* let person: [loaded, socials, first_name]; loaded = FALSE is null
    loading,            \* let loading
    error,              \* let error
    loadReq,            \* TRUE while an api.get_person of load() is in flight
    listReq,            \* TRUE while an api.list_sherlock_jobs of loadRecentJobs() is in flight
    queueReq,           \* the api.queue_sherlock_search in flight: [on, username]
    searchingAccounts,  \* let searchingAccounts
    searchResults,      \* let searchResults
    searchError,        \* let searchError
    searchJobId,        \* let searchJobId
    searchJobStatus,    \* let searchJobStatus
    searchJobPolling,   \* let searchJobPolling
    recentJobs,         \* let recentJobs
    loops,              \* the closures of pollSearchResults: pc, attempts, the job polled
    submits,            \* searches queued so far
    mounted,            \* the page component exists (the user has not navigated away)
    id,                 \* $: id = $page.params.id: the person the route names
    otherPerson,        \* the backend's record of the person the route does not name
    addressSearch,      \* the state of the AddressSearch component
    layout              \* the root layout: its onMount and the appReady store

vars == <<jobs, db, person, loading, error, loadReq, listReq, queueReq,
          searchingAccounts, searchResults, searchError, searchJobId,
          searchJobStatus, searchJobPolling, recentJobs, loops, submits, mounted,
          id, otherPerson, addressSearch, layout>>

backendVars == <<jobs, db>>
loadVars    == <<person, loading, error, loadReq, mounted>>
shellVars   == <<id, otherPerson, addressSearch, layout>>
searchVars  == <<searchingAccounts, searchResults, searchError, searchJobId,
                 searchJobStatus, searchJobPolling>>

\* ------------------------------------------------------------ input domains
Handles    == {"", "h", "@h"}
FirstNames == {"", "Jane"}
Prompts    == {"", " ", "jdoe"}
JobErrors  == {"", "sherlock exited with code 1", "Search timed out - check results later"}
NetErrors  == {"", "Failed to fetch"}

LoopIds == {"L1"}

\* the result maps a job of the tracking specification completes with
SiteA == <<"A">>
ClaimedWithHandle == [obj |-> TRUE, status |-> "Claimed", url_user |-> "u", username |-> "h"]
ClaimedNoHandle   == [obj |-> TRUE, status |-> "Claimed", url_user |-> "u", username |-> ""]
BackendResults ==
    {NoResults,
     [has |-> TRUE, entries |-> <<[site |-> SiteA, res |-> ClaimedWithHandle]>>],
     [has |-> TRUE, entries |-> <<[site |-> SiteA, res |-> ClaimedNoHandle]>>]}

Entry(k, h) == [key |-> k, handle |-> h, structured |-> FALSE]

\* ------------------------------------------------------------- the backend
NewJob(username) ==
    [status |-> "pending", results |-> NoResults, error |-> "", username |-> username,
     person_id |-> id]

\* GET /sherlock/queue?person_id=..&limit=10: the person's jobs, newest first
ListJobs(js) ==
    LET all == [i \in 1..Len(js) |->
                   [job_id |-> Len(js) + 1 - i, status |-> js[Len(js) + 1 - i].status]]
        Mine(r) == js[r.job_id].person_id = id
    IN  SelectSeq(all, Mine)

BackendStart(j) ==
    /\ j \in 1..Len(jobs)
    /\ jobs[j].status = "pending"
    /\ jobs' = [jobs EXCEPT ![j].status = "running"]
    /\ UNCHANGED <<db, loadVars, shellVars, listReq, queueReq, searchVars, recentJobs, loops,
                   submits>>

BackendComplete(j, r) ==
    /\ j \in 1..Len(jobs)
    /\ jobs[j].status \in {"pending", "running"}
    /\ jobs' = [jobs EXCEPT ![j].status = "completed", ![j].results = r]
    /\ UNCHANGED <<db, loadVars, shellVars, listReq, queueReq, searchVars, recentJobs, loops,
                   submits>>

\* a status the page has no branch for (the backend is not part of this
\* code base; poll() tests for pending and running by name before it re-arms)
BackendOther(j) ==
    /\ j \in 1..Len(jobs)
    /\ jobs[j].status \in {"pending", "running"}
    /\ jobs' = [jobs EXCEPT ![j].status = "unknown"]
    /\ UNCHANGED <<db, loadVars, shellVars, listReq, queueReq, searchVars, recentJobs, loops,
                   submits>>

BackendFail(j, e) ==
    /\ j \in 1..Len(jobs)
    /\ jobs[j].status \in {"pending", "running"}
    /\ jobs' = [jobs EXCEPT ![j].status = "failed", ![j].error = e]
    /\ UNCHANGED <<db, loadVars, shellVars, listReq, queueReq, searchVars, recentJobs, loops,
                   submits>>

\* the backend no longer holds any job record (its store was emptied); a
\* status request for an id it does not hold is answered JobNotFound
BackendForget ==
    /\ jobs # <<>>
    /\ jobs' = <<>>
    /\ UNCHANGED <<db, loadVars, shellVars, listReq, queueReq, searchVars, recentJobs, loops,
                   submits>>

\* the text of the error api.request throws for the backend's JobNotFound answer
NotFoundMsg == "Job not found"

\* ------------------------------------------------------ load, loadRecentJobs
\* the card shows its buttons only when it is neither loading nor in error,
\* and only while the component is on screen
UiReady == mounted /\ ~loading /\ error = Null /\ person.loaded

\* load(), up to its await: loading = true; error = null; api.get_person(id)
CallLoad ==
    /\ loading' = TRUE
    /\ error' = Null
    /\ loadReq' = TRUE
    /\ UNCHANGED <<person, mounted, shellVars>>

\* load() after the await: the person is stored and loadRecentJobs() is called
LoadResponse ==
    /\ loadReq
    /\ loadReq' = FALSE
    /\ person' = [loaded |-> TRUE, socials |-> db.socials, first_name |-> db.first_name]
    /\ listReq' = TRUE
    /\ loading' = FALSE
    /\ UNCHANGED <<backendVars, error, mounted, shellVars, queueReq, searchVars, recentJobs, loops,
                   submits>>

\* load() when api.get_person throws: error = err.message || String(err)
LoadError(msg) ==
    /\ loadReq
    /\ loadReq' = FALSE
    /\ error' = IF msg # "" THEN msg ELSE "Error"
    /\ loading' = FALSE
    /\ UNCHANGED <<backendVars, person, mounted, shellVars, listReq, queueReq, searchVars,
                   recentJobs, loops, submits>>

\* loadRecentJobs() after the await, the listing answered with the jobs as
\* they are now: recentJobs = jobs || []
ListResponse ==
    /\ listReq
    /\ listReq' = FALSE
    /\ recentJobs' = ListJobs(jobs)
    /\ UNCHANGED <<backendVars, loadVars, shellVars, queueReq, searchVars, loops, submits>>

\* a catch block that empties the list and shows the failure to the user
ListErrorSurfaced ==
    /\ listReq
    /\ listReq' = FALSE
    /\ recentJobs' = <<>>
    /\ searchError' = "Failed to load recent jobs"
    /\ UNCHANGED <<backendVars, loadVars, shellVars, queueReq, searchingAccounts, searchResults,
                   searchJobId, searchJobStatus, searchJobPolling, loops, submits>>

\* loadRecentJobs() when the listing throws: console.warn only
ListError ==
    /\ listReq
    /\ listReq' = FALSE
    /\ UNCHANGED <<backendVars, loadVars, shellVars, queueReq, searchVars, recentJobs, loops,
                   submits>>

\* the Save button of the edit form: api.update_person(id, {first_name, ...})
\* answered, then editing = false; load().  (The name fields sent are the
\* ones just loaded; the accounts are not part of this request.)
SavePersonEdit ==
    /\ UiReady
    /\ ~loadReq
    /\ CallLoad
    /\ UNCHANGED <<backendVars, listReq, queueReq, searchVars, recentJobs, loops, submits>>

\* --------------------------------------------------------- pollSearchResults
\* One closure of pollSearchResults.  pc: free (never started), inflight (a
\* status request is out), timer (setTimeout pending), done (nothing
\* scheduled any more).  attempts is the closure's counter, target the job
\* id the request in flight was made for.  polls (status requests issued),
\* outcome (what ended the loop: completed, failed, timedout, poll_error,
\* stalled) and threw (processSearchResults raised) record its history.
FreeLoop == [pc |-> "free", attempts |-> 0, polls |-> 0, target |-> NoJob,
             outcome |-> "none", threw |-> FALSE]

Startable(l) == loops[l].pc \in {"free", "done"}

TimeoutMsg == "Search timed out - check results later"

\* pollSearchResults() with searchJobId = jobId: searchJobPolling = true, a new
\* closure with attempts = 0, and poll() runs up to its await
StartPolling(l, jobId) ==
    [loops EXCEPT ![l] = [pc |-> "inflight", attempts |-> 0, polls |-> 1,
                          target |-> jobId, outcome |-> "none", threw |-> FALSE]]

\* setTimeout(poll, 5000) fires: poll() runs up to its await, asking for the
\* status of the job searchJobId names now
TimerFires(l) ==
    /\ loops[l].pc = "timer"
    /\ loops' = [loops EXCEPT ![l].pc = "inflight",
                              ![l].polls = @ + 1,
                              ![l].target = searchJobId]
    /\ UNCHANGED <<backendVars, loadVars, shellVars, listReq, queueReq, searchVars, recentJobs,
                   submits>>

\* a return path that leaves a timer armed
EndLoopRearm(l, attempts, outcome, threw) ==
    [loops EXCEPT ![l].pc = "timer", ![l].attempts = attempts,
                  ![l].outcome = outcome, ![l].threw = threw]

\* poll() returns without a setTimeout: the closure schedules nothing more
EndLoop(l, attempts, outcome, threw) ==
    [loops EXCEPT ![l].pc = "done", ![l].attempts = attempts,
                  ![l].outcome = outcome, ![l].threw = threw]

\* a status line that does not name the status read
StatusLineFixed(status) == "Checking status..."

\* searchJobStatus = `Status: ${jobStatus.status}`
StatusLine(status) == "Status: " \o status

\* searchError = jobStatus.error || 'Search failed'
FailedText(err) == IF err # "" THEN err ELSE "Search failed"

\* the budget test written `attempts <= maxAttempts`
AfterAttemptOffByOne(l, status, attempts) ==
    IF attempts <= maxAttempts /\ status \in {"pending", "running"}
    THEN /\ loops' = [loops EXCEPT ![l].pc = "timer", ![l].attempts = attempts]
         /\ UNCHANGED <<searchError, searchingAccounts, searchJobPolling>>
    ELSE IF attempts > maxAttempts
    THEN /\ loops' = [loops EXCEPT ![l].pc = "done", ![l].attempts = attempts,
                                   ![l].outcome = "timedout"]
         /\ searchError' = "Search timed out - check results later"
         /\ searchingAccounts' = FALSE
         /\ searchJobPolling' = FALSE
    ELSE /\ loops' = [loops EXCEPT ![l].pc = "done", ![l].attempts = attempts,
                                   ![l].outcome = "stalled"]
         /\ UNCHANGED <<searchError, searchingAccounts, searchJobPolling>>

\* a poll() that calls itself again at once instead of arming the timer
AfterAttemptNoWait(l, status, attempts) ==
    IF attempts < maxAttempts /\ status \in {"pending", "running"}
    THEN /\ loops' = [loops EXCEPT ![l].pc = "inflight", ![l].attempts = attempts,
                                   ![l].polls = @ + 1, ![l].target = searchJobId]
         /\ UNCHANGED <<searchError, searchingAccounts, searchJobPolling>>
    ELSE IF attempts >= maxAttempts
    THEN /\ loops' = [loops EXCEPT ![l].pc = "done", ![l].attempts = attempts,
                                   ![l].outcome = "timedout"]
         /\ searchError' = "Search timed out - check results later"
         /\ searchingAccounts' = FALSE
         /\ searchJobPolling' = FALSE
    ELSE /\ loops' = [loops EXCEPT ![l].pc = "done", ![l].attempts = attempts,
                                   ![l].outcome = "stalled"]
         /\ UNCHANGED <<searchError, searchingAccounts, searchJobPolling>>

\* the part of poll() after `attempts++`
AfterAttempt(l, status, attempts) ==
    IF attempts < maxAttempts /\ status \in {"pending", "running"}
    THEN /\ loops' = [loops EXCEPT ![l].pc = "timer", ![l].attempts = attempts]
         /\ UNCHANGED <<searchError, searchingAccounts, searchJobPolling>>
    ELSE IF attempts >= maxAttempts
    THEN /\ loops' = EndLoop(l, attempts, "timedout", FALSE)
         /\ searchError' = TimeoutMsg
         /\ searchingAccounts' = FALSE
         /\ searchJobPolling' = FALSE
    ELSE /\ loops' = EndLoop(l, attempts, "stalled", FALSE)
         /\ UNCHANGED <<searchError, searchingAccounts, searchJobPolling>>

\* a catch block that retries: the failure is counted and a timer is armed
PollCatchRetry(l, msg, outcome, threw) ==
    /\ loops' = [loops EXCEPT ![l].pc = "timer", ![l].attempts = @ + 1,
                              ![l].outcome = outcome, ![l].threw = threw]
    /\ UNCHANGED <<searchError, searchingAccounts, searchJobPolling>>

\* a catch block that counts the failed poll as an attempt before it reports
PollCatchCounting(l, msg, outcome, threw) ==
    /\ searchError' = IF msg # "" THEN msg ELSE "Failed to check search status"
    /\ searchingAccounts' = FALSE
    /\ searchJobPolling' = FALSE
    /\ loops' = [loops EXCEPT ![l].pc = "done", ![l].attempts = @ + 1,
                              ![l].outcome = outcome, ![l].threw = threw]

\* the catch block of poll()
PollCatch(l, msg, outcome, threw) ==
    /\ searchError' = IF msg # "" THEN msg ELSE "Failed to check search status"
    /\ searchingAccounts' = FALSE
    /\ searchJobPolling' = FALSE
    /\ loops' = EndLoop(l, loops[l].attempts, outcome, threw)

\* a poll() that takes a terminal status for final only after it has shown
\* the job running
PollResponseNeedsRunning(l) ==
    /\ loops[l].pc = "inflight"
    /\ loops[l].target \in 1..Len(jobs)
    /\ LET jobStatus == jobs[loops[l].target]
           status1   == StatusLine(jobStatus.status)
       IN  CASE jobStatus.status \in {"completed", "failed"}
                /\ searchJobStatus # "Search in progress..." ->
                   /\ searchJobStatus' = status1
                   /\ AfterAttempt(l, "running", loops[l].attempts + 1)
                   /\ UNCHANGED <<searchResults, listReq>>
              [] jobStatus.status = "completed" ->
                   LET res == processSearchResults(jobStatus.results, person,
                                  [searchResults   |-> searchResults,
                                   searchError     |-> searchError,
                                   searchJobStatus |-> status1])
                   IN  IF res.threw
                       THEN /\ PollCatch(l, RefErrorMsg, "completed", TRUE)
                            /\ searchJobStatus' = status1
                            /\ UNCHANGED <<searchResults, listReq>>
                       ELSE /\ searchResults' = res.searchResults
                            /\ searchError' = res.searchError
                            /\ searchJobStatus' = res.searchJobStatus
                            /\ searchingAccounts' = FALSE
                            /\ searchJobPolling' = FALSE
                            /\ listReq' = TRUE
                            /\ loops' = EndLoop(l, loops[l].attempts, "completed", FALSE)
              [] jobStatus.status = "failed" ->
                   /\ searchError' = FailedText(jobStatus.error)
                   /\ searchJobStatus' = status1
                   /\ searchingAccounts' = FALSE
                   /\ searchJobPolling' = FALSE
                   /\ listReq' = TRUE
                   /\ loops' = EndLoop(l, loops[l].attempts, "failed", FALSE)
                   /\ UNCHANGED searchResults
              [] OTHER ->
                   /\ searchJobStatus' = IF jobStatus.status = "running"
                                         THEN "Search in progress..." ELSE status1
                   /\ AfterAttempt(l, jobStatus.status, loops[l].attempts + 1)
                   /\ UNCHANGED <<searchResults, listReq>>
    /\ UNCHANGED <<backendVars, loadVars, shellVars, queueReq, searchJobId, recentJobs, submits>>

\* poll() after the await, the status request answered with the job's state
PollResponse(l) ==
    /\ loops[l].pc = "inflight"
    /\ loops[l].target \in 1..Len(jobs)
    /\ LET jobStatus == jobs[loops[l].target]
           status1   == StatusLine(jobStatus.status)
       IN  CASE jobStatus.status = "completed" ->
                   LET res == processSearchResults(jobStatus.results, person,
                                  [searchResults   |-> searchResults,
                                   searchError     |-> searchError,
                                   searchJobStatus |-> status1])
                   IN  IF res.threw
                       THEN /\ PollCatch(l, RefErrorMsg, "completed", TRUE)
                            /\ searchJobStatus' = status1
                            /\ UNCHANGED <<searchResults, listReq>>
                       ELSE /\ searchResults' = res.searchResults
                            /\ searchError' = res.searchError
                            /\ searchJobStatus' = res.searchJobStatus
                            /\ searchingAccounts' = FALSE
                            /\ searchJobPolling' = FALSE
                            /\ listReq' = TRUE
                            /\ loops' = EndLoop(l, loops[l].attempts, "completed", FALSE)
              [] jobStatus.status = "failed" ->
                   /\ searchError' = FailedText(jobStatus.error)
                   /\ searchJobStatus' = status1
                   /\ searchingAccounts' = FALSE
                   /\ searchJobPolling' = FALSE
                   /\ listReq' = TRUE
                   /\ loops' = EndLoop(l, loops[l].attempts, "failed", FALSE)
                   /\ UNCHANGED searchResults
              [] OTHER ->
                   /\ searchJobStatus' = IF jobStatus.status = "running"
                                         THEN "Search in progress..." ELSE status1
                   /\ AfterAttempt(l, jobStatus.status, loops[l].attempts + 1)
                   /\ UNCHANGED <<searchResults, listReq>>
    /\ UNCHANGED <<backendVars, loadVars, shellVars, queueReq, searchJobId, recentJobs, submits>>

\* a catch block that also reports the job as failed to the backend
PollErrorMarksFailed(l, msg) ==
    /\ loops[l].pc = "inflight"
    /\ PollCatch(l, msg, "poll_error", FALSE)
    /\ jobs' = [j \in 1..Len(jobs) |->
                  IF j = loops[l].target /\ jobs[j].status \in {"pending", "running"}
                  THEN [jobs[j] EXCEPT !.status = "failed", !.error = msg]
                  ELSE jobs[j]]
    /\ UNCHANGED <<db, loadVars, shellVars, listReq, queueReq, searchResults, searchJobId,
                   searchJobStatus, recentJobs, submits>>

\* poll() when the status request throws (network error, non-2xx answer)
PollError(l, msg) ==
    /\ loops[l].pc = "inflight"
    /\ PollCatch(l, msg, "poll_error", FALSE)
    /\ UNCHANGED <<backendVars, loadVars, shellVars, listReq, queueReq, searchResults, searchJobId,
                   searchJobStatus, recentJobs, submits>>

\* a catch block that treats JobNotFound as transient and polls again
PollNotFoundRetry(l) ==
    /\ loops[l].pc = "inflight"
    /\ loops[l].target \notin 1..Len(jobs)
    /\ loops' = [loops EXCEPT ![l].pc = "timer", ![l].attempts = @ + 1,
                              ![l].outcome = "not_found"]
    /\ UNCHANGED <<backendVars, loadVars, shellVars, listReq, queueReq, searchVars, recentJobs,
                   submits>>

\* poll() when the backend has no record of the id asked for: the request
\* throws and the catch block runs
PollNotFound(l) ==
    /\ loops[l].pc = "inflight"
    /\ loops[l].target \notin 1..Len(jobs)
    /\ PollCatch(l, NotFoundMsg, "not_found", FALSE)
    /\ UNCHANGED <<backendVars, loadVars, shellVars, listReq, queueReq, searchResults, searchJobId,
                   searchJobStatus, recentJobs, submits>>

\* ------------------------------------------------------ searchSocialAccounts
\* handles[0].replace(/^@/, ''), person.first_name.toLowerCase() and
\* searchUsername.trim() on the strings of Handles, FirstNames and Prompts
StripLeadingAt(h) == IF h = "@h" THEN "h" ELSE h
LowerName(n)      == IF n = "Jane" THEN "jane" ELSE n
TrimText(t)       == IF t = " " THEN "" ELSE t

\* Object.values(person.socials).map(...).filter(Boolean)
TruthyHandles(socials) ==
    LET Truthy(e) == e.handle # ""
    IN  SelectSeq(socials, Truthy)

\* the username searchSocialAccounts settles on, promptInput being what the
\* user types if prompt() is reached
SearchUsername(pers, promptInput) ==
    LET handles == TruthyHandles(pers.socials)
        fromSocials == IF Len(handles) > 0 THEN StripLeadingAt(handles[1].handle) ELSE ""
        fromName == IF fromSocials = "" /\ pers.first_name # ""
                    THEN LowerName(pers.first_name) ELSE fromSocials
    IN  IF fromName = "" THEN promptInput ELSE fromName

\* the Search button, up to the await of api.queue_sherlock_search
SearchSocialAccounts(promptInput) ==
    /\ UiReady
    /\ ~(searchingAccounts \/ searchJobPolling)
    /\ submits < MaxSubmits
    /\ ~queueReq.on
    /\ TrimText(SearchUsername(person, promptInput)) # ""
    /\ searchingAccounts' = TRUE
    /\ searchError' = Null
    /\ searchResults' = <<>>
    /\ searchJobId' = NoJob
    /\ searchJobStatus' = "Queuing search..."
    /\ queueReq' = [on |-> TRUE, username |-> TrimText(SearchUsername(person, promptInput))]
    /\ submits' = submits + 1
    /\ UNCHANGED <<backendVars, loadVars, shellVars, listReq, searchJobPolling, recentJobs, loops>>

\* the queue request answered: the backend has created the job; the id is
\* stored and pollSearchResults() starts
QueueResponse(l) ==
    /\ queueReq.on
    /\ Startable(l)
    /\ queueReq' = [on |-> FALSE, username |-> ""]
    /\ jobs' = Append(jobs, NewJob(queueReq.username))
    /\ searchJobId' = Len(jobs) + 1
    /\ searchJobStatus' = "Search queued successfully"
    /\ searchJobPolling' = TRUE
    /\ loops' = StartPolling(l, Len(jobs) + 1)
    /\ UNCHANGED <<db, loadVars, shellVars, listReq, searchingAccounts, searchResults, searchError,
                   recentJobs, submits>>

\* a catch block that reports the error and leaves the busy flag set
QueueErrorStaysBusy(msg) ==
    /\ queueReq.on
    /\ queueReq' = [on |-> FALSE, username |-> ""]
    /\ searchError' = IF msg # "" THEN msg ELSE "Failed to queue search"
    /\ UNCHANGED <<backendVars, loadVars, shellVars, listReq, searchingAccounts, searchResults,
                   searchJobId, searchJobStatus, searchJobPolling, recentJobs, loops,
                   submits>>

\* the queue request throws: no job, searchError and searchingAccounts = false
QueueError(msg) ==
    /\ queueReq.on
    /\ queueReq' = [on |-> FALSE, username |-> ""]
    /\ searchError' = IF msg # "" THEN msg ELSE "Failed to queue search"
    /\ searchingAccounts' = FALSE
    /\ UNCHANGED <<backendVars, loadVars, shellVars, listReq, searchResults, searchJobId,
                   searchJobStatus, searchJobPolling, recentJobs, loops, submits>>

\* ----------------------------------------------------------- checkJobResults
ShownJobs == 5   \* recentJobs.slice(0, 5)

\* the recent-jobs markup: Load Results for a job listed completed, Check
\* Status for one listed running or pending, no button otherwise
HasButton(j) ==
    \E i \in 1..Len(recentJobs) :
        /\ i <= ShownJobs
        /\ recentJobs[i].job_id = j
        /\ recentJobs[i].status \in {"completed", "running", "pending"}

\* a checkJobResults that saves the candidates it finds to the person's
\* accounts right away
CheckJobResultsAutoApply(jobId, l) ==
    /\ UiReady
    /\ HasButton(jobId)
    /\ jobId \in 1..Len(jobs)
    /\ jobs[jobId].status = "completed"
    /\ jobs[jobId].results.has
    /\ LET res == processSearchResults(jobs[jobId].results, person,
                      [searchResults   |-> <<>>,
                       searchError     |-> Null,
                       searchJobStatus |-> searchJobStatus])
       IN  /\ ~res.threw
           /\ searchResults' = res.searchResults
           /\ searchError' = res.searchError
           /\ db' = IF res.searchResults = <<>> THEN db
                    ELSE [db EXCEPT !.socials =
                             Append(@, Entry(res.searchResults[1].platform,
                                             res.searchResults[1].handle))]
    /\ searchJobId' = jobId
    /\ searchJobStatus' = "Loaded results from previous search"
    /\ UNCHANGED <<jobs, loadVars, shellVars, listReq, queueReq, searchingAccounts,
                   searchJobPolling, loops, recentJobs, submits>>

\* a checkJobResults that adds the candidates to those already listed
CheckJobResultsKeepsList(jobId, l) ==
    /\ UiReady
    /\ HasButton(jobId)
    /\ jobId \in 1..Len(jobs)
    /\ LET jobStatus == jobs[jobId]
       IN  CASE jobStatus.status = "completed" /\ jobStatus.results.has ->
                   LET res == processSearchResults(jobStatus.results, person,
                                  [searchResults   |-> <<>>,
                                   searchError     |-> Null,
                                   searchJobStatus |-> searchJobStatus])
                   IN  IF res.threw
                       THEN /\ searchError' = RefErrorMsg
                            /\ searchResults' = <<>>
                            /\ UNCHANGED <<searchJobId, searchJobStatus,
                                           searchingAccounts, searchJobPolling, loops>>
                       ELSE /\ searchResults' = searchResults \o res.searchResults
                            /\ searchError' = res.searchError
                            /\ searchJobId' = jobId
                            /\ searchJobStatus' = "Loaded results from previous search"
                            /\ UNCHANGED <<searchingAccounts, searchJobPolling, loops>>
              [] jobStatus.status = "failed" ->
                   /\ searchError' = IF jobStatus.error # "" THEN jobStatus.error
                                     ELSE "Previous search failed"
                   /\ UNCHANGED <<searchingAccounts, searchResults, searchJobId,
                                  searchJobStatus, searchJobPolling, loops>>
              [] OTHER ->
                   /\ Startable(l)
                   /\ searchJobId' = jobId
                   /\ searchingAccounts' = TRUE
                   /\ searchJobStatus' = "Resuming search: " \o jobStatus.status
                   /\ searchJobPolling' = TRUE
                   /\ loops' = StartPolling(l, jobId)
                   /\ UNCHANGED <<searchResults, searchError>>
    /\ UNCHANGED <<backendVars, loadVars, shellVars, listReq, queueReq, recentJobs, submits>>

\* checkJobResults(jobId), the status request answered with the job's state
CheckJobResults(jobId, l) ==
    /\ UiReady
    /\ HasButton(jobId)
    /\ jobId \in 1..Len(jobs)
    /\ LET jobStatus == jobs[jobId]
       IN  CASE jobStatus.status = "completed" /\ jobStatus.results.has ->
                   LET res == processSearchResults(jobStatus.results, person,
                                  [searchResults   |-> <<>>,
                                   searchError     |-> Null,
                                   searchJobStatus |-> searchJobStatus])
                   IN  IF res.threw
                       THEN /\ searchError' = RefErrorMsg
                            /\ searchResults' = <<>>
                            /\ UNCHANGED <<searchJobId, searchJobStatus,
                                           searchingAccounts, searchJobPolling, loops>>
                       ELSE /\ searchResults' = res.searchResults
                            /\ searchError' = res.searchError
                            /\ searchJobId' = jobId
                            /\ searchJobStatus' = "Loaded results from previous search"
                            /\ UNCHANGED <<searchingAccounts, searchJobPolling, loops>>
              [] jobStatus.status = "failed" ->
                   /\ searchError' = IF jobStatus.error # "" THEN jobStatus.error
                                     ELSE "Previous search failed"
                   /\ UNCHANGED <<searchingAccounts, searchResults, searchJobId,
                                  searchJobStatus, searchJobPolling, loops>>
              [] OTHER ->
                   /\ Startable(l)
                   /\ searchJobId' = jobId
                   /\ searchingAccounts' = TRUE
                   /\ searchJobStatus' = "Resuming search: " \o jobStatus.status
                   /\ searchJobPolling' = TRUE
                   /\ loops' = StartPolling(l, jobId)
                   /\ UNCHANGED <<searchResults, searchError>>
    /\ UNCHANGED <<backendVars, loadVars, shellVars, listReq, queueReq, recentJobs, submits>>

\* checkJobResults(jobId) when the status request throws
CheckJobResultsError(jobId, msg) ==
    /\ UiReady
    /\ HasButton(jobId)
    /\ searchError' = IF msg # "" THEN msg ELSE "Failed to check job status"
    /\ UNCHANGED <<backendVars, loadVars, shellVars, listReq, queueReq, searchingAccounts,
                   searchResults, searchJobId, searchJobStatus, searchJobPolling,
                   recentJobs, loops, submits>>

\* checkJobResults(jobId) when the backend has no record of jobId
CheckJobResultsNotFound(jobId) ==
    /\ UiReady
    /\ HasButton(jobId)
    /\ jobId \notin 1..Len(jobs)
    /\ searchError' = NotFoundMsg
    /\ UNCHANGED <<backendVars, loadVars, shellVars, listReq, queueReq, searchingAccounts,
                   searchResults, searchJobId, searchJobStatus, searchJobPolling,
                   recentJobs, loops, submits>>

\* ------------------------------------------------- addSocial, addFoundAccount
\* PATCH /people/{id} with {socials: {[key]: handle}}: the backend sets that
\* one key of the person's accounts and keeps the others
UpsertSocial(socials, k, h) ==
    IF k \in Keys(socials)
    THEN [i \in 1..Len(socials) |-> IF socials[i].key = k THEN Entry(k, h) ELSE socials[i]]
    ELSE Append(socials, Entry(k, h))

\* what the user picks in the add form: a platform and a handle
AddLabels  == {<<"A">>, <<"!">>}
AddHandles == {"", " ", "m"}

\* addSocial() with the form holding `label` and `handle`, the update answered
AddSocial(label, handle) ==
    /\ UiReady
    /\ ~loadReq
    /\ LET key == slugifyAddSocial(label)
       IN  IF key = <<>>
           THEN /\ error' = "Please choose a platform"
                /\ UNCHANGED <<backendVars, person, loading, loadReq, mounted, shellVars>>
           ELSE IF TrimText(handle) = ""
           THEN /\ error' = "Handle cannot be empty"
                /\ UNCHANGED <<backendVars, person, loading, loadReq, mounted, shellVars>>
           ELSE /\ db' = [db EXCEPT !.socials = UpsertSocial(@, key, TrimText(handle))]
                /\ CallLoad
                /\ UNCHANGED jobs
    /\ UNCHANGED <<listReq, queueReq, searchVars, recentJobs, loops, submits>>

\* addSocial() when api.update_person throws
AddSocialError(label, handle, msg) ==
    /\ UiReady
    /\ ~loadReq
    /\ slugifyAddSocial(label) # <<>>
    /\ TrimText(handle) # ""
    /\ error' = IF msg # "" THEN msg ELSE "Error"
    /\ UNCHANGED <<backendVars, person, loading, loadReq, mounted, shellVars, listReq, queueReq,
                   searchVars, recentJobs, loops, submits>>

\* -------------------------------------------------------------- saveHandleEdit
\* an entry of person.socials that is an object: handle, status and root
StructuredEntry(k, h, st, rt) ==
    [key |-> k, handle |-> h, structured |-> TRUE, status |-> st, root |-> rt]

\* obj[k] = value: an existing property keeps its place and gets the new
\* value, a new one is added at the end
SetKey(obj, k, e) ==
    IF k \in Keys(obj)
    THEN [i \in 1..Len(obj) |-> IF obj[i].key = k THEN [e EXCEPT !.key = k] ELSE obj[i]]
    ELSE Append(obj, [e EXCEPT !.key = k])

\* for (const [key, value] of Object.entries(currentSocials))
\*     normalizedSocials[slugify(key)] = value
RECURSIVE NormalizeKeys(_, _)
NormalizeKeys(socials, normalizedSocials) ==
    IF socials = <<>> THEN normalizedSocials
    ELSE NormalizeKeys(Tail(socials),
             SetKey(normalizedSocials, slugifySaveHandleEdit(Head(socials).key),
                    Head(socials)))

\* the socials object saveHandleEdit sends for `platform` and the trimmed
\* handle: an object entry keeps its other fields, anything else becomes
\* the bare handle
saveHandleEditSocials(socials, platform, handle) ==
    LET normalizedSocials  == NormalizeKeys(socials, <<>>)
        normalizedPlatform == slugifySaveHandleEdit(platform)
        IsObject == \E i \in 1..Len(normalizedSocials) :
                        /\ normalizedSocials[i].key = normalizedPlatform
                        /\ normalizedSocials[i].structured
        Current  == CHOOSE e \in {normalizedSocials[i] : i \in 1..Len(normalizedSocials)} :
                        e.key = normalizedPlatform
    IN  IF IsObject
        THEN SetKey(normalizedSocials, normalizedPlatform, [Current EXCEPT !.handle = handle])
        ELSE SetKey(normalizedSocials, normalizedPlatform, Entry(normalizedPlatform, handle))

\* PATCH /people/{id} with {socials: sent}: the backend sets every key of
\* the object sent and keeps the keys it does not name
RECURSIVE MergeSocials(_, _)
MergeSocials(socials, sent) ==
    IF sent = <<>> THEN socials
    ELSE MergeSocials(SetKey(socials, Head(sent).key, Head(sent)), Tail(sent))

\* what the user leaves in the edit field of a platform
EditHandles == {" ", "m"}

\* saveHandleEdit(platform) with the edit field holding `handle`, the update
\* answered
SaveHandleEdit(platform, handle) ==
    /\ UiReady
    /\ ~loadReq
    /\ platform \in Keys(person.socials)
    /\ IF TrimText(handle) = ""
       THEN /\ error' = "Handle cannot be empty"
            /\ UNCHANGED <<backendVars, person, loading, loadReq, mounted, shellVars>>
       ELSE /\ db' = [db EXCEPT !.socials =
                         MergeSocials(@, saveHandleEditSocials(person.socials, platform,
                                                               TrimText(handle)))]
            /\ CallLoad
            /\ UNCHANGED jobs
    /\ UNCHANGED <<listReq, queueReq, searchVars, recentJobs, loops, submits>>

\* saveHandleEdit(platform) when api.update_person throws
SaveHandleEditError(platform, handle, msg) ==
    /\ UiReady
    /\ ~loadReq
    /\ platform \in Keys(person.socials)
    /\ TrimText(handle) # ""
    /\ error' = IF msg # "" THEN msg ELSE "Error"
    /\ UNCHANGED <<backendVars, person, loading, loadReq, mounted, shellVars, listReq, queueReq,
                   searchVars, recentJobs, loops, submits>>

\* searchResults.filter((r) => r.platform !== platform)
WithoutPlatform(results, platform) ==
    LET Other(r) == r.platform # platform
    IN  SelectSeq(results, Other)

\* the Add button of the i-th candidate: addFoundAccount(platform, handle),
\* the update answered
AddFoundAccount(i) ==
    /\ UiReady
    /\ ~loadReq
    /\ i \in 1..Len(searchResults)
    /\ db' = [db EXCEPT !.socials =
                  UpsertSocial(@, searchResults[i].platform, searchResults[i].handle)]
    /\ searchResults' = WithoutPlatform(searchResults, searchResults[i].platform)
    /\ CallLoad
    /\ UNCHANGED <<jobs, listReq, queueReq, searchingAccounts, searchError, searchJobId,
                   searchJobStatus, searchJobPolling, recentJobs, loops, submits>>

\* addFoundAccount() when api.update_person throws
AddFoundAccountError(i, msg) ==
    /\ UiReady
    /\ ~loadReq
    /\ i \in 1..Len(searchResults)
    /\ error' = IF msg # "" THEN msg ELSE "Error"
    /\ UNCHANGED <<backendVars, person, loading, loadReq, mounted, shellVars, listReq, queueReq,
                   searchVars, recentJobs, loops, submits>>

\* ------------------------------------------------------------ leaving the page
\* a link of the layout's navigation bar is followed: the page component is
\* destroyed.  The page registers no onDestroy and keeps no timer handle, so
\* nothing else changes: timers already armed still fire and requests in
\* flight are still answered.
Leave ==
    /\ mounted
    /\ mounted' = FALSE
    /\ UNCHANGED <<backendVars, shellVars, person, loading, error, loadReq, listReq, queueReq,
                   searchVars, recentJobs, loops, submits>>

\* ------------------------------------------------- the route id changes
\* $: id = $page.params.id; $: if (id) load(): the route now names the other
\* person.  The component stays, so every other variable of the page keeps
\* its value; load() runs up to its await.
Navigate ==
    /\ mounted
    /\ id' = CHOOSE p \in {1, 2} : p # id
    /\ db' = otherPerson
    /\ otherPerson' = db
    /\ loading' = TRUE
    /\ error' = Null
    /\ loadReq' = TRUE
    /\ UNCHANGED <<jobs, person, mounted, addressSearch, layout, listReq, queueReq,
                   searchVars, recentJobs, loops, submits>>

\* ------------------------------------------------------------ AddressSearch
\* Queries are sequences of characters; performSearch looks at their length.
Queries == {<<>>, <<"x", "y">>, <<"x", "y", "z">>}

\* the display_name of the one address the geocoder knows, and a null value
Place     == <<"x", "y", "z", "w">>
NoAddress == <<>>

\* the component as it is constructed, bound to `value`
NewAddressSearch(value) ==
    [value         |-> value,
     searchInput   |-> value,     \* $: if (value && value.display_name && !searchInput)
     searchResults |-> <<>>,
     showDropdown  |-> FALSE,
     loading       |-> FALSE,
     debounceTimer |-> 0,         \* let debounceTimer (undefined)
     timers        |-> {},        \* the debounce timers armed and not yet fired or cleared
     nextTimer     |-> 1,         \* the handle the next setTimeout returns
     blurTimers    |-> 0,         \* the timers of handleBlur that are pending
     searches      |-> {}]        \* the api.search_addresses requests in flight

\* $: if (value && value.display_name && !searchInput) searchInput = value.display_name
React(a) ==
    IF a.value # NoAddress /\ a.searchInput = <<>>
    THEN [a EXCEPT !.searchInput = a.value] ELSE a

\* the input is on screen: the layout renders its children once appReady is
\* set; the form with the address field is the page /people/new
FieldShown == layout.appReady /\ ~layout.redirected /\ layout.path = "/people/new"

AddressStep(a) ==
    /\ FieldShown
    /\ addressSearch' = React(a)
    /\ UNCHANGED <<backendVars, loadVars, id, otherPerson, layout, listReq, queueReq,
                   searchVars, recentJobs, loops, submits>>

\* a handleInput that arms the new timer without clearing the old one
HandleInputNoClear(q) ==
    /\ addressSearch.nextTimer <= MaxInputs
    /\ AddressStep([addressSearch EXCEPT
            !.searchInput   = q,
            !.timers        = @ \cup {addressSearch.nextTimer},
            !.debounceTimer = addressSearch.nextTimer,
            !.nextTimer     = @ + 1])

\* handleInput(event): searchInput = target.value; the previous timer is
\* cleared and a new one armed
HandleInput(q) ==
    /\ addressSearch.nextTimer <= MaxInputs
    /\ AddressStep([addressSearch EXCEPT
            !.searchInput   = q,
            !.timers        = (@ \ {addressSearch.debounceTimer})
                                 \cup {addressSearch.nextTimer},
            !.debounceTimer = addressSearch.nextTimer,
            !.nextTimer     = @ + 1])

\* the debounce timer t fires: performSearch(searchInput) runs up to its
\* return or its await
DebounceFires(t) ==
    /\ t \in addressSearch.timers
    /\ LET query == addressSearch.searchInput
       IN  IF Len(query) < 3
           THEN AddressStep([addressSearch EXCEPT
                    !.timers        = @ \ {t},
                    !.searchResults = <<>>,
                    !.showDropdown  = FALSE])
           ELSE AddressStep([addressSearch EXCEPT
                    !.timers   = @ \ {t},
                    !.loading  = TRUE,
                    !.searches = @ \cup {[timer |-> t, query |-> query]}])

\* what the geocoder answers: nothing (null or []) or one address
AddressResponses == {<<>>, <<Place>>}

\* performSearch after the await: searchResults = response || []
AddressResponse(r, response) ==
    /\ r \in addressSearch.searches
    /\ AddressStep([addressSearch EXCEPT
            !.searches      = @ \ {r},
            !.searchResults = response,
            !.showDropdown  = Len(response) > 0,
            !.loading       = FALSE])

\* performSearch when the request throws
AddressError(r) ==
    /\ r \in addressSearch.searches
    /\ AddressStep([addressSearch EXCEPT
            !.searches      = @ \ {r},
            !.searchResults = <<>>,
            !.showDropdown  = FALSE,
            !.loading       = FALSE])

\* selectAddress(address), from an item of the dropdown
SelectAddress(i) ==
    /\ addressSearch.showDropdown
    /\ i \in 1..Len(addressSearch.searchResults)
    /\ AddressStep([addressSearch EXCEPT
            !.value         = addressSearch.searchResults[i],
            !.searchInput   = addressSearch.searchResults[i],
            !.showDropdown  = FALSE,
            !.searchResults = <<>>])

\* clearAddress(), from the button shown while value is set
ClearAddress ==
    /\ addressSearch.value # NoAddress
    /\ AddressStep([addressSearch EXCEPT
            !.value         = NoAddress,
            !.searchInput   = <<>>,
            !.showDropdown  = FALSE,
            !.searchResults = <<>>])

\* handleFocus()
HandleFocus ==
    AddressStep([addressSearch EXCEPT
        !.showDropdown = IF Len(addressSearch.searchResults) > 0 THEN TRUE ELSE @])

\* handleBlur(): setTimeout(() => showDropdown = false, 200)
HandleBlur ==
    /\ addressSearch.blurTimers = 0
    /\ AddressStep([addressSearch EXCEPT !.blurTimers = @ + 1])

\* the timer of handleBlur fires
BlurFires ==
    /\ addressSearch.blurTimers > 0
    /\ AddressStep([addressSearch EXCEPT !.blurTimers = @ - 1, !.showDropdown = FALSE])

\* handleKeydown(event) with event.key === 'Escape'
HandleKeydown ==
    AddressStep([addressSearch EXCEPT !.showDropdown = FALSE])

\* the form was submitted and the person created: address = null, which the
\* binding passes to the component as its value
FormSubmitted ==
    /\ addressSearch.value # NoAddress
    /\ AddressStep([addressSearch EXCEPT !.value = NoAddress])

\* ------------------------------------------------------------ the root layout
\* layout.pc: created (onMount has not run), setup (api.setup() is awaited),
\* done (onMount has returned).  redirected: location.href was assigned and
\* the document is about to be replaced.  document counts the documents
\* loaded; the stores are created anew with each.
NewLayout(path, document) ==
    [pc |-> "created", appReady |-> FALSE, setupRequired |-> FALSE,
     redirected |-> FALSE, path |-> path, failed |-> FALSE, document |-> document]

\* the layout once its setup check has passed on the page of a person
LayoutDone ==
    [pc |-> "done", appReady |-> TRUE, setupRequired |-> FALSE,
     redirected |-> FALSE, path |-> "/people/1", failed |-> FALSE, document |-> 1]

LayoutStep(l) ==
    /\ layout' = l
    /\ UNCHANGED <<backendVars, loadVars, id, otherPerson, addressSearch, listReq,
                   queueReq, searchVars, recentJobs, loops, submits>>

\* onMount up to its await: initCurrentUserFromStorage(); api.setup()
LayoutMount ==
    /\ layout.pc = "created"
    /\ LayoutStep([layout EXCEPT !.pc = "setup"])

\* what GET /setup answers: no body, or setup_required false or true
SetupAnswers == {"none", "false", "true"}

\* onMount after the await: setupRequired is stored, a first-time visitor is
\* sent to /setup, and the finally block calls markAppReady()
SetupResponse(resp) ==
    /\ layout.pc = "setup"
    /\ LayoutStep([layout EXCEPT
            !.pc            = "done",
            !.setupRequired = IF resp = "none" THEN @ ELSE resp = "true",
            !.redirected    = resp = "true" /\ layout.path # "/setup",
            !.appReady      = TRUE])

\* a catch block that returns without marking the application ready
SetupErrorNotReady ==
    /\ layout.pc = "setup"
    /\ LayoutStep([layout EXCEPT !.pc = "done", !.failed = TRUE])

\* onMount when api.setup() throws: console.error, then the finally block
SetupError ==
    /\ layout.pc = "setup"
    /\ LayoutStep([layout EXCEPT !.pc = "done", !.failed = TRUE, !.appReady = TRUE])

\* location.href = '/setup' takes effect: the document is replaced by the
\* setup page, with new stores, a new layout and no address field
Reload ==
    /\ layout.redirected
    /\ layout' = NewLayout("/setup", layout.document + 1)
    /\ addressSearch' = NewAddressSearch(NoAddress)
    /\ UNCHANGED <<backendVars, loadVars, id, otherPerson, listReq, queueReq, searchVars,
                   recentJobs, loops, submits>>

\* the state of the shell while the person page is shown: the layout has
\* finished, the route names person 1, no address field is in use
ShellIdle ==
    /\ id = 1
    /\ otherPerson = [socials |-> <<>>, first_name |-> "John"]
    /\ addressSearch = NewAddressSearch(NoAddress)
    /\ layout = LayoutDone

\* ------------------------------------------------------- the specifications
PageInit ==
    /\ ShellIdle
    /\ person = [loaded |-> FALSE, socials |-> <<>>, first_name |-> ""]
    /\ loading = TRUE
    /\ error = Null
    /\ loadReq = TRUE
    /\ listReq = FALSE
    /\ queueReq = [on |-> FALSE, username |-> ""]
    /\ searchingAccounts = FALSE
    /\ searchResults = <<>>
    /\ searchError = Null
    /\ searchJobId = NoJob
    /\ searchJobStatus = Null
    /\ searchJobPolling = FALSE
    /\ recentJobs = <<>>
    /\ loops = [l \in LoopIds |-> FreeLoop]
    /\ submits = 0
    /\ mounted = TRUE

\* the accounts of the person in the tracking specification: none, or one
\* legacy key that normalizes to the key of SiteA
TrackSocials == {<<>>, <<Entry(<<"A", " ">>, "@h")>>}

\* Tracking: the page opens on a person with no earlier job
Init ==
    /\ PageInit
    /\ jobs = <<>>
    /\ db \in [socials : TrackSocials, first_name : {"Jane"}]

Backend ==
    \E j \in 1..Len(jobs) :
        \/ BackendStart(j)
        \/ \E r \in BackendResults : BackendComplete(j, r)
        \/ \E e \in JobErrors : BackendFail(j, e)
        \/ BackendOther(j)

Loading ==
    \/ LoadResponse
    \/ \E msg \in NetErrors : LoadError(msg)
    \/ ListResponse
    \/ ListError
    \/ SavePersonEdit

Searching ==
    \/ \E p \in Prompts : SearchSocialAccounts(p)
    \/ \E l \in LoopIds : QueueResponse(l)
    \/ \E msg \in NetErrors : QueueError(msg)

Polling ==
    \E l \in LoopIds :
        \/ TimerFires(l)
        \/ PollResponse(l)
        \/ \E msg \in NetErrors : PollError(l, msg)

Resuming ==
    \E j \in 1..Len(jobs) :
        \/ \E l \in LoopIds : CheckJobResults(j, l)
        \/ \E msg \in NetErrors : CheckJobResultsError(j, msg)

Next == Backend \/ Loading \/ Searching \/ Polling \/ Resuming

Spec == Init /\ [][Next]_vars

\* Reconciliation: the page is loaded on a person whose one earlier job is
\* completed; the result map and the known accounts are drawn from the
\* bounded input sets, and the user loads the job's results.
ReconcileKeys == {<<"a">>, <<"A", " ">>, <<"a", "a">>}

Registries == {<<>>} \cup {<<Entry(k, "h")>> : k \in ReconcileKeys}

CompletedJob(username, r) ==
    [status |-> "completed", results |-> r, error |-> "", username |-> username,
     person_id |-> id]

InitReconcile ==
    /\ ShellIdle
    /\ jobs \in {<<CompletedJob("q", r)>> : r \in ResultMaps(Labels, Findings)}
    /\ db \in [socials : Registries, first_name : {"Jane"}]
    /\ person = [loaded |-> TRUE, socials |-> db.socials, first_name |-> db.first_name]
    /\ loading = FALSE
    /\ error = Null
    /\ loadReq = FALSE
    /\ listReq = FALSE
    /\ queueReq = [on |-> FALSE, username |-> ""]
    /\ searchingAccounts = FALSE
    /\ searchResults = <<>>
    /\ searchError = Null
    /\ searchJobId = NoJob
    /\ searchJobStatus = Null
    /\ searchJobPolling = FALSE
    /\ recentJobs = ListJobs(jobs)
    /\ loops = [l \in LoopIds |-> FreeLoop]
    /\ submits = 0
    /\ mounted = TRUE

NextReconcile == Resuming

SpecReconcile == InitReconcile /\ [][NextReconcile]_vars

\* Resuming: the page is loaded on a person with two earlier jobs, the older
\* still pending and the newer completed; the user resumes them from the
\* recent-jobs list, may leave the page, and the backend may lose its records.
ResumeResults ==
    {NoResults, [has |-> TRUE, entries |-> <<[site |-> SiteA, res |-> ClaimedWithHandle]>>]}

InitResume ==
    /\ ShellIdle
    /\ jobs \in {<<NewJob("q"), CompletedJob("q", r)>> : r \in ResumeResults}
    /\ db = [socials |-> <<>>, first_name |-> "Jane"]
    /\ person = [loaded |-> TRUE, socials |-> db.socials, first_name |-> db.first_name]
    /\ loading = FALSE
    /\ error = Null
    /\ loadReq = FALSE
    /\ listReq = FALSE
    /\ queueReq = [on |-> FALSE, username |-> ""]
    /\ searchingAccounts = FALSE
    /\ searchResults = <<>>
    /\ searchError = Null
    /\ searchJobId = NoJob
    /\ searchJobStatus = Null
    /\ searchJobPolling = FALSE
    /\ recentJobs = ListJobs(jobs)
    /\ loops = [l \in LoopIds |-> FreeLoop]
    /\ submits = 0
    /\ mounted = TRUE

ResumingUnknown ==
    \E i \in 1..Len(recentJobs) : CheckJobResultsNotFound(recentJobs[i].job_id)

BackendResume ==
    \E j \in 1..Len(jobs) :
        \/ BackendStart(j)
        \/ \E r \in ResumeResults : BackendComplete(j, r)
        \/ BackendFail(j, "")
        \/ BackendOther(j)

NextResume ==
    \/ BackendResume
    \/ BackendForget
    \/ Polling
    \/ \E l \in LoopIds : PollNotFound(l)
    \/ Resuming
    \/ ResumingUnknown
    \/ ListResponse
    \/ ListError
    \/ Leave

SpecResume == InitResume /\ [][NextResume]_vars

\* Concurrent tracking: the page is loaded on a person with one earlier job
\* that is still pending.  The recent-jobs buttons stay enabled while a loop
\* runs, so Check Status can start a second closure of pollSearchResults on
\* the job the first one is still polling.
ConcurrentLoops == {"L1", "L2"}

InitConcurrent ==
    /\ ShellIdle
    /\ jobs = <<NewJob("q")>>
    /\ db = [socials |-> <<>>, first_name |-> "Jane"]
    /\ person = [loaded |-> TRUE, socials |-> db.socials, first_name |-> db.first_name]
    /\ loading = FALSE
    /\ error = Null
    /\ loadReq = FALSE
    /\ listReq = FALSE
    /\ queueReq = [on |-> FALSE, username |-> ""]
    /\ searchingAccounts = FALSE
    /\ searchResults = <<>>
    /\ searchError = Null
    /\ searchJobId = NoJob
    /\ searchJobStatus = Null
    /\ searchJobPolling = FALSE
    /\ recentJobs = ListJobs(jobs)
    /\ loops = [l \in ConcurrentLoops |-> FreeLoop]
    /\ submits = 0
    /\ mounted = TRUE

PollingConcurrent ==
    \E l \in ConcurrentLoops :
        \/ TimerFires(l)
        \/ PollResponse(l)
        \/ PollError(l, "Failed to fetch")

\* the closure a new pollSearchResults() call gets: which of the two records
\* holds it makes no difference, so the first one not in use is taken
NextClosure == IF Startable("L1") THEN "L1" ELSE "L2"

ResumingConcurrent ==
    \E j \in 1..Len(jobs) :
        \/ CheckJobResults(j, NextClosure)
        \/ CheckJobResultsError(j, "Failed to fetch")

NextConcurrent ==
    \/ BackendResume
    \/ PollingConcurrent
    \/ ResumingConcurrent
    \/ ListResponse
    \/ ListError

SpecConcurrent == InitConcurrent /\ [][NextConcurrent]_vars

\* Applying candidates: the page is loaded on a person whose one earlier job
\* is completed; the user loads its results, adds accounts by hand and
\* applies candidates, in any order.
ApplyResults == ResultMaps({<<"A">>, <<"b">>}, {ClaimedWithHandle})

InitApply ==
    /\ ShellIdle
    /\ jobs \in {<<CompletedJob("q", r)>> : r \in ApplyResults}
    /\ db \in [socials : {<<>>, <<Entry(<<"b">>, "x")>>}, first_name : {"Jane"}]
    /\ person = [loaded |-> TRUE, socials |-> db.socials, first_name |-> db.first_name]
    /\ loading = FALSE
    /\ error = Null
    /\ loadReq = FALSE
    /\ listReq = FALSE
    /\ queueReq = [on |-> FALSE, username |-> ""]
    /\ searchingAccounts = FALSE
    /\ searchResults = <<>>
    /\ searchError = Null
    /\ searchJobId = NoJob
    /\ searchJobStatus = Null
    /\ searchJobPolling = FALSE
    /\ recentJobs = ListJobs(jobs)
    /\ loops = [l \in LoopIds |-> FreeLoop]
    /\ submits = 0
    /\ mounted = TRUE

Applying ==
    \/ \E label \in AddLabels, handle \in AddHandles :
          \/ AddSocial(label, handle)
          \/ \E msg \in NetErrors : AddSocialError(label, handle, msg)
    \/ \E i \in 1..MaxFindings :
          \/ AddFoundAccount(i)
          \/ \E msg \in NetErrors : AddFoundAccountError(i, msg)

NextApply ==
    \/ Resuming
    \/ Applying
    \/ LoadResponse
    \/ \E msg \in NetErrors : LoadError(msg)
    \/ ListResponse
    \/ ListError

SpecApply == InitApply /\ [][NextApply]_vars

\* Normalizing: the person has no account yet and the one earlier job holds
\* one Claimed finding under an arbitrary label; the user loads its results
\* and adds the platform of that label by hand.
NormChars == {"a", "A", " ", "\t", "!", "-"}

ScenarioE ==
    <<" ", "M", "y", " ", "C", "o", "o", "l", " ", "S", "i", "t", "e", "!", " ">>

NormLabels == SeqsUpTo(NormChars, MaxNormLen) \cup {ScenarioE}

TheLabel == jobs[1].results.entries[1].site

InitNormalize ==
    /\ ShellIdle
    /\ jobs \in {<<CompletedJob("q", [has |-> TRUE,
                       entries |-> <<[site |-> s, res |-> ClaimedWithHandle]>>])>> :
                    s \in NormLabels}
    /\ db = [socials |-> <<>>, first_name |-> "Jane"]
    /\ person = [loaded |-> TRUE, socials |-> db.socials, first_name |-> db.first_name]
    /\ loading = FALSE
    /\ error = Null
    /\ loadReq = FALSE
    /\ listReq = FALSE
    /\ queueReq = [on |-> FALSE, username |-> ""]
    /\ searchingAccounts = FALSE
    /\ searchResults = <<>>
    /\ searchError = Null
    /\ searchJobId = NoJob
    /\ searchJobStatus = Null
    /\ searchJobPolling = FALSE
    /\ recentJobs = ListJobs(jobs)
    /\ loops = [l \in LoopIds |-> FreeLoop]
    /\ submits = 0
    /\ mounted = TRUE

NextNormalize ==
    \/ Resuming
    \/ AddSocial(TheLabel, "m")
    \/ LoadResponse
    \/ \E msg \in NetErrors : LoadError(msg)
    \/ ListResponse
    \/ ListError

SpecNormalize == InitNormalize /\ [][NextNormalize]_vars

\* Editing handles: the page is loaded on a person with up to two accounts,
\* stored under proper or legacy keys, as bare handles or as objects; the
\* user edits the handle of one of them.
EditKeys == {<<"a">>, <<"A">>, <<"b">>}

EditEntries ==
    {Entry(k, "h") : k \in EditKeys}
    \cup {StructuredEntry(k, "s", "confirmed", TRUE) : k \in EditKeys}

EditRegistries ==
    {r \in SeqsUpTo(EditEntries, 2) : \A i, j \in 1..Len(r) : i # j => r[i].key # r[j].key}

InitEdit ==
    /\ ShellIdle
    /\ jobs = <<>>
    /\ db \in [socials : EditRegistries, first_name : {"Jane"}]
    /\ person = [loaded |-> TRUE, socials |-> db.socials, first_name |-> db.first_name]
    /\ loading = FALSE
    /\ error = Null
    /\ loadReq = FALSE
    /\ listReq = FALSE
    /\ queueReq = [on |-> FALSE, username |-> ""]
    /\ searchingAccounts = FALSE
    /\ searchResults = <<>>
    /\ searchError = Null
    /\ searchJobId = NoJob
    /\ searchJobStatus = Null
    /\ searchJobPolling = FALSE
    /\ recentJobs = <<>>
    /\ loops = [l \in LoopIds |-> FreeLoop]
    /\ submits = 0
    /\ mounted = TRUE

Editing ==
    \E platform \in EditKeys \cup {slugifySaveHandleEdit(k) : k \in EditKeys},
       handle \in EditHandles :
        \/ SaveHandleEdit(platform, handle)
        \/ \E msg \in NetErrors : SaveHandleEditError(platform, handle, msg)

NextEdit ==
    \/ Editing
    \/ LoadResponse
    \/ \E msg \in NetErrors : LoadError(msg)
    \/ ListResponse
    \/ ListError

SpecEdit == InitEdit /\ [][NextEdit]_vars

\* ------------------------------------------- the route changes during a search
\* Two persons; the page shows person 1, who has an account on "a" and whose
\* one search job is listed.  The job reports the site "A" as claimed.
InitNavigate ==
    /\ id = 1
    /\ otherPerson = [socials |-> <<>>, first_name |-> "John"]
    /\ addressSearch = NewAddressSearch(NoAddress)
    /\ layout = LayoutDone
    /\ jobs = <<NewJob("q")>>
    /\ db = [socials |-> <<Entry(<<"a">>, "x")>>, first_name |-> "Jane"]
    /\ person = [loaded |-> TRUE, socials |-> db.socials, first_name |-> db.first_name]
    /\ loading = FALSE
    /\ error = Null
    /\ loadReq = FALSE
    /\ listReq = FALSE
    /\ queueReq = [on |-> FALSE, username |-> ""]
    /\ searchingAccounts = FALSE
    /\ searchResults = <<>>
    /\ searchError = Null
    /\ searchJobId = NoJob
    /\ searchJobStatus = Null
    /\ searchJobPolling = FALSE
    /\ recentJobs = ListJobs(jobs)
    /\ loops = [l \in LoopIds |-> FreeLoop]
    /\ submits = 0
    /\ mounted = TRUE

NextNavigate ==
    \/ Navigate
    \/ \E j \in 1..Len(jobs) :
          \/ BackendStart(j)
          \/ BackendComplete(j, [has |-> TRUE,
                                 entries |-> <<[site |-> SiteA, res |-> ClaimedWithHandle]>>])
          \/ BackendFail(j, "")
    \/ Resuming
    \/ \E l \in LoopIds :
          \/ TimerFires(l)
          \/ PollResponse(l)
    \/ \E i \in 1..MaxFindings : AddFoundAccount(i)
    \/ LoadResponse
    \/ ListResponse
    \/ ListError

SpecNavigate == InitNavigate /\ [][NextNavigate]_vars

\* ------------------------------------------------- the shell and the new form
\* A document is loaded on /people/new or on /setup: the layout has not
\* mounted, the form's address field is empty, and the page of a person is
\* not shown.
InitShell ==
    /\ id = 1
    /\ otherPerson = [socials |-> <<>>, first_name |-> "John"]
    /\ addressSearch = NewAddressSearch(NoAddress)
    /\ layout \in {NewLayout(path, 1) : path \in {"/people/new", "/setup"}}
    /\ jobs = <<>>
    /\ db = [socials |-> <<>>, first_name |-> "Jane"]
    /\ person = [loaded |-> FALSE, socials |-> <<>>, first_name |-> ""]
    /\ loading = TRUE
    /\ error = Null
    /\ loadReq = FALSE
    /\ listReq = FALSE
    /\ queueReq = [on |-> FALSE, username |-> ""]
    /\ searchingAccounts = FALSE
    /\ searchResults = <<>>
    /\ searchError = Null
    /\ searchJobId = NoJob
    /\ searchJobStatus = Null
    /\ searchJobPolling = FALSE
    /\ recentJobs = <<>>
    /\ loops = [l \in LoopIds |-> FreeLoop]
    /\ submits = 0
    /\ mounted = FALSE

SetupCheck ==
    \/ \E resp \in SetupAnswers : SetupResponse(resp)
    \/ SetupError

NextShell ==
    \/ LayoutMount
    \/ SetupCheck
    \/ Reload
    \/ \E q \in Queries : HandleInput(q)
    \/ \E t \in 1..MaxInputs : DebounceFires(t)
    \/ \E r \in addressSearch.searches :
          \/ \E response \in AddressResponses : AddressResponse(r, response)
          \/ AddressError(r)
    \/ SelectAddress(1)
    \/ ClearAddress
    \/ FormSubmitted
    \/ HandleFocus
    \/ HandleBlur
    \/ BlurFires
    \/ HandleKeydown

SpecShell == InitShell /\ [][NextShell]_vars

\* Svelte runs onMount once the layout is in the document, the setup request
\* is answered or fails, and the browser carries out the assignment to
\* location.href.
SpecShellFair ==
    /\ SpecShell
    /\ WF_vars(LayoutMount)
    /\ WF_vars(SetupCheck)
    /\ WF_vars(Reload)

\* ==================================================================== claims
\* the job a loop polled last, and the findings of a result map that pass
\* the Claimed-with-url test and whose key is not among the known keys
TargetJob(l) == jobs[loops[l].target]

Eligible(results, socials) ==
    {i \in 1..Len(results.entries) :
        /\ IsClaimedWithUrl(results.entries[i].res)
        /\ slugify(results.entries[i].site) \notin {slugify(k) : k \in Keys(socials)}}

\* C1: no candidate in the list has a platform key equal to the normalized
\* form of a key of the person's accounts, legacy unnormalized keys included.
C1_NoCandidateForKnownKey ==
    \A i \in 1..Len(searchResults) : \A k \in Keys(person.socials) :
        searchResults[i].platform # slugify(k)

\* a candidate was emitted while a Claimed finding of the same result map was
\* skipped because its label normalizes to a legacy key stored unnormalized
C1_Witness ==
    /\ Len(searchResults) > 0
    /\ \E k \in Keys(person.socials) :
          /\ slugify(k) # k
          /\ \E i \in 1..Len(jobs[1].results.entries) :
                /\ IsClaimedWithUrl(jobs[1].results.entries[i].res)
                /\ slugify(jobs[1].results.entries[i].site) = slugify(k)

\* C2: the candidate list never holds two candidates with the same platform
\* key, also when several Claimed labels of one result map normalize alike.
C2_NoTwoCandidatesShareKey ==
    \A i, j \in 1..Len(searchResults) :
        i # j => searchResults[i].platform # searchResults[j].platform

\* C3: when a loop observes its job Completed, every Claimed finding with a
\* url and an unknown key has a candidate whose handle is the finding's
\* username if it has one and the job's subject query otherwise.
C3_HandleIsObservedOrSubject ==
    [][\A l \in LoopIds :
         (loops[l].pc = "inflight" /\ loops'[l].outcome = "completed")
         => \A i \in Eligible(TargetJob(l).results, person.socials) :
               LET e == TargetJob(l).results.entries[i]
               IN  \E c \in 1..Len(searchResults') :
                      /\ searchResults'[c].platform = slugify(e.site)
                      /\ searchResults'[c].handle =
                            IF e.res.username # "" THEN e.res.username
                            ELSE TargetJob(l).username]_vars

\* C4: processing the result of a completed job never raises an error.
C4_ReconcileNeverThrows == \A l \in LoopIds : ~loops[l].threw

C6_StopsAtTerminal ==
    \A l \in LoopIds :
        loops[l].outcome \in {"completed", "failed"}
        => loops[l].pc = "done" /\ loops[l].polls = loops[l].attempts + 1

\* three non-terminal answers, Completed on the fourth poll, loop over
C6_Witness ==
    \E l \in LoopIds :
        /\ loops[l].outcome = "completed"
        /\ loops[l].pc = "done"
        /\ loops[l].attempts = 3
        /\ loops[l].polls = 4
        /\ TargetJob(l).status = "completed"

\* C7: no loop issues more than maxAttempts polls, and a loop that ends
\* timed out has issued exactly maxAttempts, each answered non-terminal.
C7_ExactlyBudgetPolls ==
    \A l \in LoopIds :
        /\ loops[l].polls <= maxAttempts
        /\ loops[l].outcome = "timedout"
           => /\ loops[l].pc = "done"
              /\ loops[l].polls = maxAttempts
              /\ loops[l].attempts = maxAttempts

\* a job still pending after the loop polled it maxAttempts times
C7_Witness ==
    \E l \in LoopIds :
        /\ loops[l].outcome = "timedout"
        /\ loops[l].polls = maxAttempts
        /\ TargetJob(l).status = "pending"
        /\ searchError = TimeoutMsg

FailedReports == {<<FailedText(e), "Status: failed">> : e \in JobErrors}

C9_FailedAndTimedOutDiffer ==
    [][\A l \in LoopIds :
         loops[l].pc = "inflight"
         => /\ loops'[l].outcome = "failed"
               => <<searchError', searchJobStatus'>> \in FailedReports
            /\ loops'[l].outcome = "timedout"
               => /\ <<searchError', searchJobStatus'>> \notin FailedReports
                  /\ searchError' = TimeoutMsg]_vars

\* a Failed job whose error text is the very text of the timeout message
C9_Witness ==
    \E l \in LoopIds :
        /\ loops[l].outcome = "failed"
        /\ TargetJob(l).error = TimeoutMsg
        /\ searchError = TimeoutMsg
        /\ searchJobStatus = "Status: failed"

\* C10: once a loop has timed out on the job just submitted, the page still
\* holds the job's id and offers a button to resume it.
\* (Stated for a page that shows its buttons and has no listing in flight.)
C10_TimedOutJobResumable ==
    \A l \in LoopIds :
        (loops[l].outcome = "timedout" /\ UiReady /\ ~listReq)
        => /\ searchJobId = loops[l].target
           /\ HasButton(loops[l].target)

\* C11: resuming a job that is already Completed starts no polling loop,
\* whether its result map is present, empty or absent.
C11_NoLoopOnCompletedJob ==
    [][\A l \in LoopIds :
         (Startable(l) /\ loops'[l].pc = "inflight")
         => jobs[loops'[l].target].status # "completed"]_vars

\* C12: every later poll of a resumed loop asks for the job the loop polled
\* before, the one it was resumed on.
C12_ResumedLoopKeepsItsJob ==
    [][\A l \in LoopIds :
         (loops[l].pc = "timer" /\ loops'[l].pc = "inflight")
         => loops'[l].target = loops[l].target]_vars

\* C13: once the page has been left (the cancellation of its tracking), no
\* loop issues another poll.
C13_NoPollAfterCancel ==
    [][\A l \in LoopIds : ~mounted => loops'[l].polls = loops[l].polls]_vars

\* C15: the poll that is answered JobNotFound ends its loop in that very
\* step with the answer shown and the busy flags cleared, and the loop
\* issues no poll afterwards; a resume answered JobNotFound shows the
\* answer and starts no loop and no poll.
C15_NotFoundNeverRetried ==
    [][/\ \A l \in LoopIds :
            /\ (loops[l].pc = "inflight" /\ loops'[l].outcome = "not_found")
               => /\ loops'[l].pc = "done"
                  /\ loops'[l].polls = loops[l].polls
                  /\ searchError' = NotFoundMsg
                  /\ ~searchingAccounts'
                  /\ ~searchJobPolling'
            /\ (loops[l].outcome = "not_found" /\ loops'[l].outcome = "not_found")
               => loops'[l] = loops[l]
       /\ (searchError # NotFoundMsg /\ searchError' = NotFoundMsg)
          => \A l \in LoopIds : loops'[l].polls = loops[l].polls]_vars

\* a loop had polled its job twice when the backend lost the record; its
\* third poll was answered JobNotFound and was its last
C15_Witness ==
    \E l \in LoopIds :
        /\ loops[l].outcome = "not_found"
        /\ loops[l].pc = "done"
        /\ loops[l].polls = 3
        /\ jobs = <<>>
        /\ searchError = NotFoundMsg
        /\ ~searchJobPolling

\* C16: after a queue request that failed, the error is shown, no job id is
\* held, no loop was started and no poll issued, and the Search button is
\* enabled again.
C16_FailedSubmitLeavesIdle ==
    (submits > 0 /\ ~queueReq.on /\ jobs = <<>>)
    => /\ searchError \in (NetErrors \ {""}) \cup {"Failed to queue search"}
       /\ searchJobId = NoJob
       /\ \A l \in LoopIds : loops[l] = FreeLoop
       /\ ~(searchingAccounts \/ searchJobPolling)

\* the queue request failed without a message and the page shows its buttons
C16_Witness ==
    /\ submits = 1
    /\ ~queueReq.on
    /\ jobs = <<>>
    /\ searchError = "Failed to queue search"
    /\ UiReady

C17_AppliedCandidateKeyAbsent ==
    [][\A i \in 1..Len(searchResults) :
         (/\ db'.socials # db.socials
          /\ \A j \in 1..Len(searchResults') :
                searchResults'[j].platform # searchResults[i].platform)
         => searchResults[i].platform \notin Keys(db.socials)]_vars

\* the findings of a result map whose status is Claimed, and the texts a
\* failed checkJobResults request leaves in searchError
ClaimedFindings(entries) == {i \in 1..Len(entries) : entries[i].res.status = "Claimed"}

ResumeErrorTexts == (NetErrors \ {""}) \cup {"Failed to check job status"}

\* C18: every candidate in the list comes from a finding of the result map
\* whose status is Claimed and whose url is non-empty, and carries that
\* finding's label, normalized key and url.
C18_CandidateOnlyForClaimedUrl ==
    \A c \in 1..Len(searchResults) :
        \E i \in 1..Len(jobs[1].results.entries) :
            LET e == jobs[1].results.entries[i]
            IN  /\ e.res.status = "Claimed"
                /\ e.res.url_user # ""
                /\ searchResults[c].displayName = e.site
                /\ searchResults[c].platform = slugify(e.site)
                /\ searchResults[c].url = e.res.url_user

\* one finding became a candidate while a Claimed finding without url, or a
\* finding with another status, of the same result map did not
C18_Witness ==
    /\ Len(searchResults) = 1
    /\ Len(jobs[1].results.entries) = 2
    /\ \E i \in 1..2 :
          LET r == jobs[1].results.entries[i].res
          IN  /\ slugify(jobs[1].results.entries[i].site)
                     \notin existingSocials(person.socials)
              /\ \/ r.status = "Claimed" /\ r.url_user = ""
                 \/ r.status = "Available" /\ r.url_user # ""

\* C19: when every Claimed finding of the loaded result map has a label
\* that normalizes to a key the person already has, the candidate list is
\* empty and the page reports as already added the number of those findings.
C19_AllKnownReportsSkipped ==
    LET e       == jobs[1].results.entries
        claimed == ClaimedFindings(e)
        known   == {slugify(k) : k \in Keys(person.socials)}
    IN  (/\ searchJobId = 1
         /\ searchError \notin ResumeErrorTexts
         /\ claimed # {}
         /\ \A i \in claimed : slugify(e[i].site) \in known)
        => /\ searchResults = <<>>
           /\ searchError = NoNewMsg(Cardinality({i \in claimed : slugify(e[i].site) \in known}))

\* Scenario B with a legacy key: one Claimed finding whose label normalizes
\* to a key stored unnormalized; no candidate, one platform reported skipped
C19_Witness ==
    /\ searchJobId = 1
    /\ Len(jobs[1].results.entries) = 1
    /\ IsClaimedWithUrl(jobs[1].results.entries[1].res)
    /\ \E k \in Keys(person.socials) :
          k # slugify(k) /\ slugify(k) = slugify(jobs[1].results.entries[1].site)
    /\ searchResults = <<>>
    /\ searchError = NoNewMsg(1)

\* C20: with totalClaimed the number of Claimed findings of the loaded
\* result map and newCandidates the length of the candidate list, the
\* difference skippedExisting = totalClaimed - newCandidates is never
\* negative, and when the page reports a skipped count it is that difference.
C20_SummaryAddsUp ==
    LET totalClaimed    == Cardinality(ClaimedFindings(jobs[1].results.entries))
        newCandidates   == Len(searchResults)
        skippedExisting == totalClaimed - newCandidates
    IN  searchJobId = 1
        => /\ skippedExisting >= 0
           /\ (newCandidates = 0 /\ searchError \notin ResumeErrorTexts)
              => searchError = IF skippedExisting > 0 THEN NoNewMsg(skippedExisting)
                               ELSE NoneMsg

\* two Claimed findings, one a new candidate and one skipped as known
C20_Witness ==
    /\ searchJobId = 1
    /\ Cardinality(ClaimedFindings(jobs[1].results.entries)) = 2
    /\ Len(searchResults) = 1
    /\ \E i \in 1..2 :
          slugify(jobs[1].results.entries[i].site) \in existingSocials(person.socials)

\* C21: when the loaded result map yields no candidate, the page reports
\* "all already added" exactly when some finding is Claimed and "none found"
\* exactly when no finding is Claimed, and the two reports differ.
C21_EmptyListOutcomesDistinct ==
    LET claimed == ClaimedFindings(jobs[1].results.entries)
    IN  (searchJobId = 1 /\ searchResults = <<>> /\ searchError \notin ResumeErrorTexts)
        => /\ (claimed # {}) <=> (\E n \in 1..MaxFindings : searchError = NoNewMsg(n))
           /\ (claimed = {}) <=> (searchError = NoneMsg)
           /\ \A n \in 1..MaxFindings : NoNewMsg(n) # NoneMsg

\* a result map with findings none of which is Claimed: nothing found
C21_Witness ==
    /\ searchJobId = 1
    /\ Len(jobs[1].results.entries) = 2
    /\ ClaimedFindings(jobs[1].results.entries) = {}
    /\ searchResults = <<>>
    /\ searchError = NoneMsg

\* C22: the candidates stand in the order in which their labels appear in
\* the result map: of two candidates, the one listed first comes from the
\* finding that is iterated first.
C22_CandidatesInResultOrder ==
    LET e == jobs[1].results.entries
        Pos(c) == CHOOSE i \in 1..Len(e) : e[i].site = searchResults[c].displayName
    IN  /\ \A c \in 1..Len(searchResults) :
              \E i \in 1..Len(e) : e[i].site = searchResults[c].displayName
        /\ \A c1, c2 \in 1..Len(searchResults) : c1 < c2 => Pos(c1) < Pos(c2)

\* two candidates whose keys stand in the list against their sorted order
C22_Witness ==
    /\ Len(searchResults) = 2
    /\ searchResults[1].platform = <<"a", "a">>
    /\ searchResults[2].platform = <<"a">>
    /\ jobs[1].results.entries[1].site = searchResults[1].displayName

\* The reference algorithm of normalize, in one pass over the label between
\* its first and its last non-whitespace character: a whitespace character
\* yields an underscore when it opens a run and nothing otherwise, any other
\* character is lowercased and kept when it lies in [a-z0-9_-].
Ink(s) == {i \in 1..Len(s) : s[i] \notin Space}

Max(S) == CHOOSE x \in S : \A y \in S : y <= x

Min(S) == CHOOSE x \in S : \A y \in S : x <= y

RECURSIVE RefFrom(_, _, _)
RefFrom(s, i, last) ==
    IF i > last THEN <<>>
    ELSE LET here == IF s[i] \in Space
                     THEN IF s[i - 1] \in Space THEN <<>> ELSE <<"_">>
                     ELSE IF LowerChar(s[i]) \in KeyChars
                          THEN <<LowerChar(s[i])>> ELSE <<>>
         IN  here \o RefFrom(s, i + 1, last)

NormalizeRef(s) == IF Ink(s) = {} THEN <<>> ELSE RefFrom(s, Min(Ink(s)), Max(Ink(s)))

ScenarioEKey == <<"m", "y", "_", "c", "o", "o", "l", "_", "s", "i", "t", "e">>

\* C23: every copy of slugify yields, on every label, the key of the
\* reference algorithm (trim, lowercase, one underscore per whitespace run,
\* only [a-z0-9_-] kept); the keys the handlers produce with it (a
\* candidate's platform, the key addSocial writes) are that key, and
\* " My Cool Site! " yields "my_cool_site".
C23_SlugifyIsNormalize ==
    LET ref == NormalizeRef(TheLabel)
    IN  /\ \A i \in 1..Len(ref) : ref[i] \in KeyChars
        /\ slugify(TheLabel) = ref
        /\ slugifyConfirmSocial(TheLabel) = ref
        /\ slugifyRejectSocial(TheLabel) = ref
        /\ slugifyAddSocial(TheLabel) = ref
        /\ slugifySaveHandleEdit(TheLabel) = ref
        /\ slugifyNewPerson(TheLabel) = ref
        /\ \A c \in 1..Len(searchResults) :
              searchResults[c].platform = NormalizeRef(searchResults[c].displayName)
        /\ Keys(db.socials) \subseteq {ref}
        /\ NormalizeRef(ScenarioE) = ScenarioEKey
        /\ slugify(ScenarioE) = ScenarioEKey

\* Scenario E: the label " My Cool Site! " listed as a candidate, then added
\* by hand, both under the key "my_cool_site"
C23_Witness ==
    /\ Len(searchResults) = 1
    /\ searchResults[1].displayName = ScenarioE
    /\ searchResults[1].platform = ScenarioEKey
    /\ Keys(db.socials) = {ScenarioEKey}

\* the variables of the page, as opposed to those of the backend
pageVars == <<loadVars, listReq, queueReq, searchVars, recentJobs, loops, submits>>

\* C24: a step of the page (one that changes a variable of the page) leaves
\* every job of the backend as it is; the one exception is the answered
\* queue request, which adds one pending job and changes no existing one,
\* so that there are never more jobs than searches submitted.
C24_TrackerOnlyReadsJobs ==
    [][ (pageVars' # pageVars)
        => /\ \/ jobs' = jobs
              \/ /\ queueReq.on
                 /\ ~queueReq'.on
                 /\ jobs' = Append(jobs, NewJob(queueReq.username))
           /\ Len(jobs') <= submits' ]_vars

\* a loop gave up on a poll error while its job is still running at the
\* backend, and the listing answered afterwards shows it running
C24_Witness ==
    /\ \E l \in LoopIds : loops[l].outcome = "poll_error" /\ loops[l].pc = "done"
    /\ jobs # <<>>
    /\ jobs[1].status = "running"
    /\ recentJobs # <<>>
    /\ recentJobs[1].status = "running"

\* C25: reconciling only reads the person's accounts.  A step that loads a
\* job's results (it sets the job id, the status line or the error, or
\* fills the candidate list) changes neither the stored accounts nor the
\* page's copy of them; and a step that changes the stored accounts while
\* it changes the candidate list is addFoundAccount: it writes exactly the
\* key and handle of one listed candidate and takes that candidate off the
\* list.  (The other writer of the accounts, the add form, leaves the
\* search state alone.)
C25_ReconcileOnlyReads ==
    [][ /\ (\/ searchJobId' # searchJobId
            \/ searchJobStatus' # searchJobStatus
            \/ searchError' # searchError
            \/ Len(searchResults') > Len(searchResults))
           => (db' = db /\ person' = person)
        /\ (db'.socials # db.socials /\ searchVars' # searchVars)
           => \E i \in 1..Len(searchResults) :
                 /\ db'.socials = UpsertSocial(db.socials, searchResults[i].platform,
                                               searchResults[i].handle)
                 /\ searchResults' = WithoutPlatform(searchResults,
                                                     searchResults[i].platform) ]_vars

\* both candidates of a loaded result map were listed and one of them has
\* been applied: the accounts hold it, the list holds the other
C25_Witness ==
    /\ searchJobId = 1
    /\ Len(jobs[1].results.entries) = 2
    /\ Len(searchResults) = 1
    /\ Len(db.socials) = 1
    /\ db.socials[1].key \notin {searchResults[1].platform}
    /\ db.socials[1].handle = "h"
    /\ person.socials = db.socials

\* C26: a poll answered while the job is Completed or Failed ends the loop
\* with that outcome and leaves the page as the job, the person and the
\* candidates and error shown before determine it, whatever the loop saw
\* before (its attempts and the status line of the previous poll play no
\* part); and a loop that has ended on Completed or Failed stays as it is:
\* no timer, no further poll.
C26_TerminalAcceptedFromAnyState ==
    [][\A l \in LoopIds :
         /\ (/\ loops[l].pc = "inflight"
             /\ loops'[l] # loops[l]
             /\ loops'[l].outcome # "poll_error"
             /\ TargetJob(l).status \in {"completed", "failed"})
            => /\ loops'[l].pc = "done"
               /\ loops'[l].outcome = TargetJob(l).status
               /\ loops'[l].attempts = loops[l].attempts
               /\ TargetJob(l).status = "failed"
                  => /\ searchError' = FailedText(TargetJob(l).error)
                     /\ searchJobStatus' = "Status: failed"
                     /\ searchResults' = searchResults
                     /\ ~searchingAccounts' /\ ~searchJobPolling'
               /\ (TargetJob(l).status = "completed" /\ ~loops'[l].threw)
                  => LET res == processSearchResults(TargetJob(l).results, person,
                                    [searchResults   |-> searchResults,
                                     searchError     |-> searchError,
                                     searchJobStatus |-> "Status: completed"])
                     IN  /\ searchResults' = res.searchResults
                         /\ searchError' = res.searchError
                         /\ searchJobStatus' = res.searchJobStatus
                         /\ ~searchingAccounts' /\ ~searchJobPolling'
         /\ (/\ loops[l].outcome \in {"completed", "failed"}
             /\ loops'[l].outcome = loops[l].outcome)
            => loops'[l] = loops[l]]_vars

\* the loop's one earlier poll showed the job pending, the job has completed
\* since without being seen running, and the second poll is in flight
C26_Witness ==
    \E l \in LoopIds :
        /\ loops[l].pc = "inflight"
        /\ loops[l].attempts = 1
        /\ loops[l].polls = 2
        /\ searchJobStatus = "Status: pending"
        /\ TargetJob(l).status = "completed"
        /\ TargetJob(l).results.has

\* what loading the results of job j shows, the person being as it is
LoadedView(j) ==
    processSearchResults(jobs[j].results, person,
        [searchResults |-> <<>>, searchError |-> Null, searchJobStatus |-> Null])

\* C27: loading the results of a Completed job shows the same thing every
\* time.  After every step that leaves the results of job 1 loaded, the
\* candidate list and the message are those the job's result map and the
\* person determine and the status line is the fixed one; and a step taken
\* when they were loaded before (a second load, with or without a failed
\* request in between) leaves the candidate list and the status line as
\* the first load left them.
C27_LoadingTwiceShowsTheSame ==
    [][ /\ (searchJobId' = 1 /\ searchError' \notin ResumeErrorTexts)
           => /\ searchResults' = LoadedView(1).searchResults
              /\ searchError' = LoadedView(1).searchError
              /\ searchJobStatus' = "Loaded results from previous search"
        /\ searchJobId = 1
           => /\ searchResults' = searchResults
              /\ searchJobStatus' = searchJobStatus
              /\ jobs' = jobs /\ person' = person ]_vars

\* the results were loaded (two candidates listed), a later request for the
\* same job failed, and the results are about to be loaded again
C27_Witness ==
    /\ searchJobId = 1
    /\ searchJobStatus = "Loaded results from previous search"
    /\ Len(searchResults) = 2
    /\ searchError \in ResumeErrorTexts

\* C28: a loop never has more than maxAttempts polls behind it; every poll
\* but the first is issued by the timer firing, so the timer's delay lies
\* between any two polls of a loop; and the timer is armed only by an
\* answered poll, once per answer, which is when the attempt is counted.
C28_OneWaitBetweenPolls ==
    [][\A l \in LoopIds :
         /\ loops'[l].polls <= maxAttempts
         /\ (loops[l].polls > 0 /\ loops'[l].polls = loops[l].polls + 1)
            => (loops[l].pc = "timer" /\ loops'[l].pc = "inflight")
         /\ (loops[l].pc # "timer" /\ loops'[l].pc = "timer")
            => /\ loops[l].pc = "inflight"
               /\ loops'[l].polls = loops[l].polls
               /\ loops'[l].attempts = loops[l].attempts + 1]_vars

\* the last poll the budget allows is in flight, after maxAttempts - 1
\* answers each followed by one wait
C28_Witness ==
    \E l \in LoopIds :
        /\ loops[l].pc = "inflight"
        /\ loops[l].polls = maxAttempts
        /\ loops[l].attempts = maxAttempts - 1

\* C29: the step that ends a listing request changes nothing but the list
\* of recent jobs: the jobs, the person, the page error, the job id, the
\* candidates, the search error, the status line, the busy flags and the
\* loops stay as they are, and the list becomes the backend's listing or,
\* when the request failed, stays what it was.
C29_ListingChangesOnlyTheList ==
    [][ (listReq /\ ~listReq')
        => /\ UNCHANGED <<backendVars, loadVars, queueReq, searchVars, loops, submits>>
           /\ \/ recentJobs' = ListJobs(jobs)
              \/ recentJobs' = recentJobs ]_vars

\* the listing requested when the loop saw the job completed has failed: the
\* list still shows the job pending, and what the loop left is untouched
C29_Witness ==
    /\ ~listReq
    /\ \E l \in LoopIds : loops[l].outcome = "completed" /\ ~loops[l].threw
    /\ jobs # <<>>
    /\ jobs[1].status = "completed"
    /\ recentJobs # <<>>
    /\ recentJobs[1].status = "pending"
    /\ searchError = Null
    /\ Len(searchResults) = 1

\* C30: a loop that schedules no further poll has left both busy flags
\* false, whatever ended it.
C30_BusyFlagsClearedAtLoopEnd ==
    \A l \in LoopIds :
        loops[l].pc = "done" => (~searchingAccounts /\ ~searchJobPolling)

\* C31: for as long as a loop is alive (a poll in flight or its timer
\* pending) the job its polls ask for stays the one it was started for,
\* whatever the user does in between.
C31_LoopPollsOnlyItsJob ==
    [][\A l \in LoopIds :
         loops[l].pc \in {"inflight", "timer"}
         => loops'[l].target = loops[l].target]_vars

\* C32: at most one loop is alive (a poll in flight or a timer pending) at
\* any time.
C32_AtMostOneLoopAlive ==
    Cardinality({l \in ConcurrentLoops : loops[l].pc \in {"inflight", "timer"}}) <= 1

\* C34: a non-empty candidate list is never shown together with a search
\* error.
C34_NoErrorBesideCandidates ==
    searchResults # <<>> => searchError = Null

\* C35: every candidate in the list has a non-empty platform key.
C35_CandidateKeyNonEmpty ==
    \A c \in 1..Len(searchResults) : searchResults[c].platform # <<>>

\* C36: normalizing a key again changes nothing, and a key holds only
\* characters of [a-z0-9_-]: for the label of the finding, for both copies
\* of slugify the claim names, and for the key of every listed candidate.
C36_SlugifyIdempotentAndClosed ==
    LET k1 == slugify(TheLabel)
        k2 == slugifySaveHandleEdit(TheLabel)
    IN  /\ slugify(k1) = k1
        /\ slugifySaveHandleEdit(k2) = k2
        /\ \A i \in 1..Len(k1) : k1[i] \in KeyChars
        /\ \A i \in 1..Len(k2) : k2[i] \in KeyChars
        /\ \A c \in 1..Len(searchResults) :
              /\ slugify(searchResults[c].platform) = searchResults[c].platform
              /\ \A i \in 1..Len(searchResults[c].platform) :
                    searchResults[c].platform[i] \in KeyChars

\* a label with an uppercase letter, a whitespace run and a character
\* outside the alphabet, listed under its key
C36_Witness ==
    /\ Len(searchResults) = 1
    /\ searchResults[1].displayName = <<"A", " ", "\t", "!">>
    /\ searchResults[1].platform = <<"a", "_">>

\* what an entry holds besides its key
ValueOf(e) == IF e.structured THEN <<e.handle, e.status, e.root>> ELSE <<e.handle>>

\* C37: whichever account of the loaded person is edited, the socials
\* object saveHandleEdit sends has one entry for every entry of
\* person.socials, every entry but the edited one is there under its
\* normalized key with its value unchanged, and the edited entry carries
\* the new handle and, if it was an object, its status and root.
C37_EditChangesOnlyOneHandle ==
    person.loaded =>
    \A p \in 1..Len(person.socials) :
        LET sent == saveHandleEditSocials(person.socials, person.socials[p].key, "m")
            At(k) == CHOOSE e \in {sent[i] : i \in 1..Len(sent)} : e.key = k
        IN  /\ Len(sent) = Len(person.socials)
            /\ \A q \in 1..Len(person.socials) :
                  LET e == person.socials[q]
                      k == slugifySaveHandleEdit(e.key)
                  IN  /\ k \in Keys(sent)
                      /\ q # p => ValueOf(At(k)) = ValueOf(e)
                      /\ q = p => ValueOf(At(k)) =
                                      ValueOf([e EXCEPT !.handle = "m"])

\* the backend record of person p
RecordOf(p) == IF p = id THEN db ELSE otherPerson

\* C33: the candidates of a job stay with the person the job was run for.
\* A step that lists new candidates reconciles the result against the
\* accounts of the job's person, and a step that applies a candidate (a
\* write to the record the route names) writes into the record of the
\* job's person.
C33_CandidatesStayWithTheirPerson ==
    [][ /\ (Len(searchResults') > Len(searchResults))
            => /\ searchJobId' # NoJob
               /\ person.first_name = RecordOf(jobs[searchJobId'].person_id).first_name
        /\ (id' = id /\ db' # db /\ Len(searchResults') < Len(searchResults))
            => /\ searchJobId # NoJob
               /\ jobs[searchJobId].person_id = id ]_vars

\* C38: the address search is debounced.  At most one debounce timer is
\* pending, and it is the one the component holds; an input event leaves
\* exactly the timer it armed pending; and a search request starts only in
\* a step without an input event in which the timer armed by the latest
\* input fires, for the input value of that moment.
C38_AddressSearchDebounced ==
    [][ LET a == addressSearch
            b == addressSearch'
        IN  /\ Cardinality(a.timers) <= 1
            /\ Cardinality(b.timers) <= 1
            /\ a.timers \subseteq {a.debounceTimer}
            /\ (layout' = layout /\ b.nextTimer # a.nextTimer)
                   => b.timers = {a.nextTimer}
            /\ ~(b.searches \subseteq a.searches)
                   => /\ a.timers = {a.nextTimer - 1}
                      /\ b.timers = {}
                      /\ b.nextTimer = a.nextTimer
                      /\ b.searchInput = a.searchInput
                      /\ b.searches = a.searches \cup
                             {[timer |-> a.nextTimer - 1, query |-> a.searchInput]} ]_vars

\* the search for "xyz" started by the timer of the second input is in
\* flight, and a third input has armed a new timer
C38_Witness ==
    /\ addressSearch.searches = {[timer |-> 2, query |-> <<"x", "y", "z">>]}
    /\ addressSearch.timers = {3}

\* the documents a behaviour loads: the first, and the setup page after a
\* redirect
Documents == {1, 2}

\* C39: the application always becomes ready.  In every document, once the
\* layout has mounted and awaits the setup check, appReady becomes true in
\* that document, whatever the check answers and also when it fails; and
\* within a document appReady, once true, stays true.
C39_AppAlwaysBecomesReady ==
    /\ \A d \in Documents :
          (layout.document = d /\ layout.pc = "setup")
             ~> (layout.document = d /\ layout.appReady)
    /\ [][ (layout.appReady /\ layout'.document = layout.document)
              => layout'.appReady ]_vars

\* the first document was sent to /setup because setup is required, and the
\* setup check of the second document failed: the application is ready
C39_Witness ==
    /\ layout.document = 2
    /\ layout.failed
    /\ layout.appReady

====
